---- MODULE Spec2Model ----
(***************************************************************************)
(* SMTP-to-Gmail OAuth relay: the account store, the credential crypto,    *)
(* the token lifecycle of the Gmail client and the SMTP listener's         *)
(* onAuth / onData callbacks.                                              *)
(*                                                                         *)
(* Strings are TLA+ strings.  A text column that goes through the crypto   *)
(* module is kept as the list of its ':'-separated segments, which is what *)
(* decrypt() and isEncrypted() look at; SQL NULL is the empty list.        *)
(***************************************************************************)
EXTENDS Integers, Sequences, FiniteSets, TLC

VARIABLES
    accounts,   \* rows of the accounts table
    nextId,     \* AUTOINCREMENT counter of accounts.id
    now,        \* wall clock, Unix seconds
    minted,     \* OAuth provider: expiry_date (ms) of every access token it issued
    calls,      \* sendEmailViaGmail invocations in flight or finished
    sessions,   \* SMTP sessions: identity attached by onAuth and last reply
    keyOf,      \* history: plaintext API key last given to createAccount/updateApiKey
    retired,    \* history: keys of the account that updateApiKey has replaced
    flows,      \* GET /auth/callback requests in flight or answered
    redeemed,   \* OAuth provider: authorization codes already exchanged
    revoked,    \* OAuth provider: access tokens a revoke request was sent for
    nkeys,      \* number of API keys the callback has generated
    written,    \* history: refresh token last given to createAccount/updateRefreshToken
    crypto      \* a plaintext, the envelopes encrypt returned for it, the last decrypt call

(* the state of the registration routes *)
oauthVars == <<flows, redeemed, revoked, nkeys>>

(* everything but crypto *)
relayVars == <<accounts, nextId, now, minted, calls, sessions, keyOf, retired, oauthVars, written>>

vars == <<relayVars, crypto>>

-----------------------------------------------------------------------------
(* Bounds of the model *)

MaxTicks == 2
MaxIssued == 3
MaxId == 2

TickStep == 100

(* Program constants *)

IV_LENGTH == 12
BufferSeconds == 300
DefaultLifetimeMs == 3600000

-----------------------------------------------------------------------------
(* Value domains *)

Emails == {"a@x", "b@x"}
Usernames == Emails \cup {"A@X", ""}
PlainKeys == {"sk_1", "sk_2"}
Salts == {"s1", "s2"}
Nonces == {"n1", "n2"}
RefreshTokens == {"rt1", "rt2"}
Lifetimes == {400}
CallIds == {1, 2}
SessionIds == {"s1"}

NULL == <<>>

(* String.prototype.toLowerCase on the strings of the model *)
ToLowerCase(s) ==
    IF s = "A@X" THEN "a@x" ELSE s

-----------------------------------------------------------------------------
(* Credential crypto: src/utils/crypto.ts *)

(* encrypt(plaintext) with the random IV drawn as n: iv:authTag:ciphertext *)
encrypt(plaintext, n) ==
    << [hexlen |-> IV_LENGTH * 2, body |-> <<n>>],
       [body |-> <<n, plaintext>>],
       [body |-> <<n, plaintext>>] >>

(* decrypt(encryptedData): <<plaintext>>, or <<>> when it throws *)
decrypt(parts) ==
    IF Len(parts) # 3
    THEN <<>>
    ELSE IF /\ Len(parts[3].body) = 2
            /\ parts[3].body[1] = parts[1].body[1]
            /\ parts[2].body = parts[3].body
         THEN <<parts[3].body[2]>>
         ELSE <<>>

isEncrypted(parts) ==
    IF parts = NULL
    THEN FALSE
    ELSE Len(parts) = 3 /\ parts[1].hexlen = IV_LENGTH * 2

-----------------------------------------------------------------------------
(* encrypt, decrypt and isEncrypted once more, at the level the conversions of *)
(* crypto.ts work on: a plaintext is a sequence of Unicode code points, a      *)
(* buffer a sequence of bytes, an envelope a sequence of characters.           *)

(* longest plaintext, in code points *)
MaxLen == 2

(* one code point for each length of the UTF-8 encoding: ':', e-acute, the euro *)
(* sign, an emoji                                                               *)
CodePoints == {58, 233, 8364, 128512}

(* U+FFFD, what the decoder puts for bytes that are no UTF-8 *)
REPLACEMENT_CHARACTER == 65533

Plaintexts == UNION {[1..len -> CodePoints] : len \in 0..MaxLen}

(* characters of an envelope: 0..15 are the hex digits 0-9a-f, 30..35 the digits *)
(* A-F, COLON is ':' and NON_HEX stands for every other character                *)
COLON == 16
NON_HEX == 17
Chars == 0..17 \cup 30..35

(* the value of a hex digit, -1 for a character that is none *)
hexValue(c) ==
    IF c \in 0..15 THEN c
    ELSE IF c \in 30..35 THEN c - 20
    ELSE -1

(* buf.toString('hex') *)
RECURSIVE toHex(_)
toHex(bytes) ==
    IF bytes = <<>> THEN <<>>
    ELSE <<Head(bytes) \div 16, Head(bytes) % 16>> \o toHex(Tail(bytes))

(* Buffer.from(str, 'hex'): decoding stops at the first character that is not a *)
(* hex digit, and a single trailing digit is dropped                            *)
RECURSIVE fromHex(_)
fromHex(str) ==
    IF Len(str) < 2 \/ hexValue(str[1]) < 0 \/ hexValue(str[2]) < 0
    THEN <<>>
    ELSE <<hexValue(str[1]) * 16 + hexValue(str[2])>> \o fromHex(SubSeq(str, 3, Len(str)))

(* the UTF-8 bytes of one code point *)
utf8Bytes(cp) ==
    IF cp < 128 THEN <<cp>>
    ELSE IF cp < 2048 THEN <<192 + (cp \div 64), 128 + (cp % 64)>>
    ELSE IF cp < 65536
    THEN <<224 + (cp \div 4096), 128 + ((cp \div 64) % 64), 128 + (cp % 64)>>
    ELSE <<240 + (cp \div 262144), 128 + ((cp \div 4096) % 64),
           128 + ((cp \div 64) % 64), 128 + (cp % 64)>>

(* Buffer.from(str, 'utf8') *)
RECURSIVE utf8Encode(_)
utf8Encode(str) ==
    IF str = <<>> THEN <<>> ELSE utf8Bytes(Head(str)) \o utf8Encode(Tail(str))

(* a continuation byte 10xxxxxx at position i *)
isContinuation(bytes, i) ==
    i <= Len(bytes) /\ bytes[i] \in 128..191

(* the length of the well-formed UTF-8 sequence that starts bytes, 0 if none *)
utf8SequenceLength(bytes) ==
    IF bytes[1] < 128 THEN 1
    ELSE IF bytes[1] \in 194..223 /\ isContinuation(bytes, 2) THEN 2
    ELSE IF /\ bytes[1] \in 224..239
            /\ isContinuation(bytes, 2) /\ isContinuation(bytes, 3)
            /\ (bytes[1] - 224) * 4096 + (bytes[2] - 128) * 64 >= 2048
            /\ (bytes[1] - 224) * 4096 + (bytes[2] - 128) * 64 \notin 55296..57343
    THEN 3
    ELSE IF /\ bytes[1] \in 240..244
            /\ isContinuation(bytes, 2) /\ isContinuation(bytes, 3)
            /\ isContinuation(bytes, 4)
            /\ (bytes[1] - 240) * 262144 + (bytes[2] - 128) * 4096 \in 65536..1114111
    THEN 4
    ELSE 0

(* the code point of a well-formed sequence of len bytes *)
utf8CodePoint(bytes, len) ==
    IF len = 1 THEN bytes[1]
    ELSE IF len = 2 THEN (bytes[1] - 192) * 64 + (bytes[2] - 128)
    ELSE IF len = 3
    THEN (bytes[1] - 224) * 4096 + (bytes[2] - 128) * 64 + (bytes[3] - 128)
    ELSE (bytes[1] - 240) * 262144 + (bytes[2] - 128) * 4096
           + (bytes[3] - 128) * 64 + (bytes[4] - 128)

(* buf.toString('utf8'): bytes that are no UTF-8 become U+FFFD *)
RECURSIVE utf8Decode(_)
(* a decoder that takes every byte for one character *)
utf8DecodeLatin1(bytes) == bytes

utf8Decode(bytes) ==
    IF bytes = <<>> THEN <<>>
    ELSE LET len == utf8SequenceLength(bytes)
         IN  IF len = 0
             THEN <<REPLACEMENT_CHARACTER>> \o utf8Decode(Tail(bytes))
             ELSE <<utf8CodePoint(bytes, len)>>
                    \o utf8Decode(SubSeq(bytes, len + 1, Len(bytes)))

(* config.encryptionKey, the one key of the deployment *)
ENCRYPTION_KEY == 101

(* crypto.randomBytes(IV_LENGTH): the nonces the generator can return *)
Ivs == {[i \in 1..IV_LENGTH |-> (i * 19) % 256], [i \in 1..IV_LENGTH |-> 250 - i]}

(* authentication tag lengths, in bytes, that setAuthTag accepts for GCM when *)
(* createDecipheriv was given no authTagLength; getAuthTag returns 16 bytes   *)
GcmTagLengths == {4, 8, 12, 13, 14, 15, 16}
AUTH_TAG_LENGTH == 16

RECURSIVE sumBytes(_)
sumBytes(bytes) ==
    IF bytes = <<>> THEN 0 ELSE Head(bytes) + sumBytes(Tail(bytes))

(* bitwise exclusive or of two bytes *)
RECURSIVE xorByte(_, _)
xorByte(a, b) ==
    IF a = 0 /\ b = 0 THEN 0
    ELSE (((a % 2) + (b % 2)) % 2) + 2 * xorByte(a \div 2, b \div 2)

(* the key stream of the counter mode: a byte fixed by key, nonce and position *)
keyStream(iv, i) ==
    (ENCRYPTION_KEY + 7 * sumBytes(iv) + 13 * i) % 256

(* cipher.update + cipher.final, and decipher.update: the bytes xor the key stream *)
cipherUpdate(bytes, iv) ==
    [i \in 1..Len(bytes) |-> xorByte(bytes[i], keyStream(iv, i))]

RECURSIVE weightedSum(_, _, _)
weightedSum(bytes, i, j) ==
    IF i > Len(bytes) THEN 0
    ELSE bytes[i] * (i + j) + weightedSum(bytes, i + 1, j)

(* cipher.getAuthTag(): 16 bytes fixed by key, nonce and ciphertext *)
getAuthTag(iv, ciphertext) ==
    [j \in 1..AUTH_TAG_LENGTH |->
        (ENCRYPTION_KEY + 3 * sumBytes(iv) + 5 * Len(ciphertext) + 11 * j
           + weightedSum(ciphertext, 1, j)) % 256]

(* an encrypt that uses one nonce for every call *)
encryptTextFixedIv(plaintext, iv) ==
    LET fixed == [i \in 1..IV_LENGTH |-> 0]
        encrypted == cipherUpdate(utf8Encode(plaintext), fixed)
    IN  toHex(fixed) \o <<COLON>> \o toHex(getAuthTag(fixed, encrypted)) \o <<COLON>>
          \o toHex(encrypted)

(* encrypt(plaintext) with the nonce the generator returned *)
encryptText(plaintext, iv) ==
    LET encrypted == cipherUpdate(utf8Encode(plaintext), iv)
    IN  toHex(iv) \o <<COLON>> \o toHex(getAuthTag(iv, encrypted)) \o <<COLON>>
          \o toHex(encrypted)

(* str.split(':') *)
RECURSIVE split(_)
split(str) ==
    IF \A i \in 1..Len(str) : str[i] # COLON
    THEN <<str>>
    ELSE LET i == CHOOSE k \in 1..Len(str) :
                     str[k] = COLON /\ \A m \in 1..(k - 1) : str[m] # COLON
         IN  <<SubSeq(str, 1, i - 1)>> \o split(SubSeq(str, i + 1, Len(str)))

(* decrypt(encryptedData): [error, plaintext]; error is "" when it returns *)
decryptText(encryptedData) ==
    LET parts == split(encryptedData)
        Thrown(message) == [error |-> message, plaintext |-> <<>>]
    IN  IF Len(parts) # 3
        THEN Thrown("Invalid encrypted data format")
        ELSE LET iv == fromHex(parts[1])
                 authTag == fromHex(parts[2])
                 ciphertext == fromHex(parts[3])
             IN  IF iv = <<>>
                 THEN Thrown("Invalid initialization vector")
                 ELSE IF Len(authTag) \notin GcmTagLengths
                 THEN Thrown("Invalid authentication tag length")
                 ELSE IF Len(parts[3]) % 2 # 0
                 THEN Thrown("The argument 'encoding' is invalid for data of this length")
                 ELSE IF authTag # SubSeq(getAuthTag(iv, ciphertext), 1, Len(authTag))
                 THEN Thrown("Unsupported state or unable to authenticate data")
                 ELSE [error |-> "", plaintext |-> utf8Decode(cipherUpdate(ciphertext, iv))]

(* isEncrypted(value) *)
isEncryptedText(value) ==
    IF value = <<>>
    THEN FALSE
    ELSE Len(split(value)) = 3 /\ Len(split(value)[1]) = IV_LENGTH * 2

(* getDecryptedRefreshToken(account) over a row whose refresh_token column holds *)
(* a string: [error, plaintext] as decrypt, null is FALSE                       *)
getDecryptedRefreshTokenText(account) ==
    IF isEncryptedText(account.refresh_token)
    THEN [error |-> decryptText(account.refresh_token).error,
          plaintext |-> decryptText(account.refresh_token).plaintext, null |-> FALSE]
    ELSE [error |-> "", plaintext |-> account.refresh_token, null |-> FALSE]

(* getDecryptedAccessToken(account): null is TRUE when it returns null *)
getDecryptedAccessTokenText(account) ==
    IF account.access_token = <<>>
    THEN [error |-> "", plaintext |-> <<>>, null |-> TRUE]
    ELSE IF isEncryptedText(account.access_token)
    THEN [error |-> decryptText(account.access_token).error,
          plaintext |-> decryptText(account.access_token).plaintext, null |-> FALSE]
    ELSE [error |-> "", plaintext |-> account.access_token, null |-> FALSE]

(* bcrypt.hashSync(key, BCRYPT_ROUNDS) with the random salt drawn as s *)
bcryptHash(key, s) ==
    "$2b$" \o s \o "$" \o key

Hashes == {bcryptHash(k, s) : k \in PlainKeys, s \in Salts}

(* bcrypt.compareSync(candidate, hash): rehash the candidate with the hash's salt *)
bcryptCompare(candidate, hash) ==
    \E s \in Salts : hash = "$2b$" \o s \o "$" \o candidate

(* api_key.startsWith('$2') *)
startsWithDollar2(s) ==
    s \in Hashes

Candidates == PlainKeys \cup Hashes \cup {""}

-----------------------------------------------------------------------------
(* Account store: the repository functions and the accounts table *)

getAccountByEmail(email) ==
    {r \in accounts : r.email = email}

getAccountByApiKey(apiKey) ==
    {r \in accounts : r.api_key = apiKey}

accountExists(email) ==
    getAccountByEmail(email) # {}

(* a table without UNIQUE constraints *)
InsertAllowedAlways(email, hashedApiKey) == TRUE

(* UNIQUE(email), UNIQUE(api_key) of CREATE TABLE accounts, seen by an INSERT *)
InsertAllowed(email, hashedApiKey) ==
    /\ \A r \in accounts : r.email # email
    /\ \A r \in accounts : r.api_key # hashedApiKey

(* UNIQUE(api_key) seen by an UPDATE of the row of email *)
ApiKeyUpdateAllowed(email, hashedApiKey) ==
    \A r \in accounts : r.email # email => r.api_key # hashedApiKey

(* the row INSERT INTO accounts (email, refresh_token, api_key) writes *)
InsertedRow(email, encryptedRefreshToken, hashedApiKey) ==
    [ id            |-> nextId,
      email         |-> email,
      refresh_token |-> encryptedRefreshToken,
      access_token  |-> NULL,
      token_expiry  |-> NULL,
      api_key       |-> hashedApiKey,
      created_at    |-> now,
      updated_at    |-> now ]

(* an insert that replaces the row of a taken email *)
createAccountOrReplace(email, refreshToken, apiKey, s, n) ==
    {r \in accounts : r.email # email}
        \cup {InsertedRow(email, encrypt(refreshToken, n), bcryptHash(apiKey, s))}

(* createAccount(data): hash the key, encrypt the refresh token, INSERT *)
createAccount(email, refreshToken, apiKey, s, n) ==
    IF InsertAllowed(email, bcryptHash(apiKey, s))
    THEN accounts \cup {InsertedRow(email, encrypt(refreshToken, n), bcryptHash(apiKey, s))}
    ELSE accounts

(* a lookup that tries the key against the hash of every row *)
verifyApiKeyAnyRow(email, apiKey) ==
    {r \in accounts :
        IF startsWithDollar2(r.api_key)
        THEN bcryptCompare(apiKey, r.api_key)
        ELSE r.api_key = apiKey}

(* verifyApiKey(email, apiKey): the set holding the account, empty for null *)
verifyApiKey(email, apiKey) ==
    {r \in getAccountByEmail(email) :
        IF startsWithDollar2(r.api_key)
        THEN bcryptCompare(apiKey, r.api_key)
        ELSE r.api_key = apiKey}

(* getDecryptedRefreshToken(account): <<token>>, or <<>> when decrypt throws *)
getDecryptedRefreshToken(account) ==
    IF isEncrypted(account.refresh_token)
    THEN decrypt(account.refresh_token)
    ELSE <<account.refresh_token>>

(* getDecryptedAccessToken(account): [threw, value], value NULL or <<token>> *)
getDecryptedAccessToken(account) ==
    IF account.access_token = NULL
    THEN [threw |-> FALSE, value |-> NULL]
    ELSE IF isEncrypted(account.access_token)
         THEN [threw |-> decrypt(account.access_token) = <<>>,
               value |-> decrypt(account.access_token)]
         ELSE [threw |-> FALSE, value |-> <<account.access_token>>]

(* an UPDATE that leaves a row alone once it holds an access token *)
updateAccessTokenRowKeepFirst(r, encryptedAccessToken, tokenExpiry) ==
    IF r.access_token # NULL
    THEN r
    ELSE [r EXCEPT !.access_token = encryptedAccessToken,
                   !.token_expiry = <<tokenExpiry>>,
                   !.updated_at = now]

(* an UPDATE that writes the access token and leaves the expiry as it was *)
updateAccessTokenRowTokenOnly(r, encryptedAccessToken, tokenExpiry) ==
    [r EXCEPT !.access_token = encryptedAccessToken,
              !.updated_at = now]

(* UPDATE accounts SET access_token, token_expiry, updated_at WHERE email *)
updateAccessTokenRow(r, encryptedAccessToken, tokenExpiry) ==
    [r EXCEPT !.access_token = encryptedAccessToken,
              !.token_expiry = <<tokenExpiry>>,
              !.updated_at = now]

(* result.changes of an UPDATE ... WHERE email = ?: 0 makes the update functions *)
(* throw 'Account not found: ' + email                                          *)
updateChanges(email) ==
    Cardinality({r \in accounts : r.email = email})

(* an UPDATE without its WHERE clause *)
updateAccessTokenEveryRow(email, accessToken, tokenExpiry, n) ==
    {updateAccessTokenRow(r, encrypt(accessToken, n), tokenExpiry) : r \in accounts}

(* updateAccessToken(email, accessToken, tokenExpiry): the table afterwards *)
updateAccessToken(email, accessToken, tokenExpiry, n) ==
    {IF r.email = email
     THEN updateAccessTokenRow(r, encrypt(accessToken, n), tokenExpiry)
     ELSE r : r \in accounts}

(* an update that leaves the stored refresh token as it was *)
updateRefreshTokenKeepsOld(email, refreshToken, n) ==
    {IF r.email = email THEN [r EXCEPT !.updated_at = now] ELSE r : r \in accounts}

(* UPDATE accounts SET refresh_token, updated_at WHERE email *)
updateRefreshToken(email, refreshToken, n) ==
    {IF r.email = email
     THEN [r EXCEPT !.refresh_token = encrypt(refreshToken, n), !.updated_at = now]
     ELSE r : r \in accounts}

(* an update that leaves the stored hash as it was *)
updateApiKeyKeepsHash(email, apiKey, s) ==
    {IF r.email = email
     THEN [r EXCEPT !.updated_at = now]
     ELSE r : r \in accounts}

(* an update of the key that also drops the cached access token *)
updateApiKeyResetsTokens(email, apiKey, s) ==
    {IF r.email = email
     THEN [r EXCEPT !.api_key = bcryptHash(apiKey, s), !.access_token = NULL,
                    !.token_expiry = NULL, !.updated_at = now]
     ELSE r : r \in accounts}

(* UPDATE accounts SET api_key, updated_at WHERE email *)
updateApiKey(email, apiKey, s) ==
    {IF r.email = email
     THEN [r EXCEPT !.api_key = bcryptHash(apiKey, s), !.updated_at = now]
     ELSE r : r \in accounts}

(* a delete whose statement has no WHERE clause *)
deleteAccountEveryRow(email) ==
    {r \in accounts : FALSE}

(* DELETE FROM accounts WHERE email *)
deleteAccount(email) ==
    {r \in accounts : r.email # email}

-----------------------------------------------------------------------------
(* The repository the SMTP listener and its Gmail client are linked against:  *)
(* keys and tokens are stored as given, a stored value v is [plain |-> v]       *)

(* 'sk_' + nanoid(32) of the registration callback: a key is never issued twice *)
GeneratedKey(id) ==
    "sk_" \o ToString(id)

Passwords == {GeneratedKey(id) : id \in 1..MaxId} \cup {"sk_WRONG", ""}

(* createAccount(data) of the repository: INSERT of the values as given *)
createAccountPlain(email, refreshToken, apiKey) ==
    IF InsertAllowed(email, apiKey)
    THEN accounts \cup {InsertedRow(email, [plain |-> refreshToken], apiKey)}
    ELSE accounts

(* updateTokens(email, accessToken, tokenExpiry) of the repository *)
updateTokens(email, accessToken, tokenExpiry) ==
    {IF r.email = email
     THEN [r EXCEPT !.access_token = [plain |-> accessToken],
                    !.token_expiry = <<tokenExpiry>>,
                    !.updated_at = now]
     ELSE r : r \in accounts}

-----------------------------------------------------------------------------
(* Token lifecycle and delivery: the Gmail client *)

FromValues == {"a@x", "b@x", "xa@x"}
Statuses == {200, 401, 403, 429, 500}

(* String.prototype.includes on the strings of the model *)
includes(s, t) ==
    s = t \/ t = "" \/ (s = "xa@x" /\ t = "a@x")

(* Date.now() *)
DateNow == now * 1000

(* isTokenExpired with the buffer left out: expired only at the expiry itself *)
isTokenExpiredNoBuffer(expiryTimestamp) ==
    IF expiryTimestamp = NULL
    THEN TRUE
    ELSE now >= expiryTimestamp[1]

(* isTokenExpired that takes an unknown expiry for a fresh token *)
isTokenExpiredUnlessNull(expiryTimestamp) ==
    IF expiryTimestamp = NULL
    THEN FALSE
    ELSE now >= expiryTimestamp[1] - BufferSeconds

(* isTokenExpired with > in the place of >=: not yet expired at the buffer itself *)
isTokenExpiredStrict(expiryTimestamp) ==
    IF expiryTimestamp = NULL
    THEN TRUE
    ELSE now > expiryTimestamp[1] - BufferSeconds

(* isTokenExpired(expiryTimestamp) *)
isTokenExpired(expiryTimestamp) ==
    IF expiryTimestamp = NULL
    THEN TRUE
    ELSE now >= expiryTimestamp[1] - BufferSeconds

IdleCall ==
    [ pc |-> "idle", userEmail |-> "", from |-> "", session |-> "", identity |-> "",
      header |-> "",
      email |-> "", cached |-> FALSE, raced |-> FALSE, resp |-> NULL, token |-> NULL,
      sentFrom |-> "", error |-> "", account |-> NULL ]

(* `account` is the id of the row getValidAccessToken read, held across the     *)
(* await of the refresh                                                         *)

(* sendEmailViaGmail after getValidAccessToken returned accessToken for email:  *)
(* override the sender unless it names the account, then POST to the Gmail API *)
SenderFor(from, email) ==
    IF includes(ToLowerCase(from), ToLowerCase(email)) THEN from ELSE email

Deliver(call, accessToken, email) ==
    [call EXCEPT !.pc = "sending", !.token = <<accessToken>>, !.email = email,
                 !.sentFrom = SenderFor(call.from, email), !.account = NULL]

Fail(call, message) ==
    [call EXCEPT !.pc = "failed", !.error = message, !.account = NULL]

(* some other invocation is awaiting a refresh for the same account *)
RefreshInFlight(email) ==
    \E d \in CallIds : calls[d].pc = "refreshing" /\ calls[d].email = email

(* getValidAccessToken(userEmail) up to its await or its return *)
getValidAccessToken(call) ==
    IF getAccountByEmail(call.userEmail) = {}
    THEN Fail(call, "Account not found")
    ELSE LET account == CHOOSE r \in getAccountByEmail(call.userEmail) : TRUE
             useCache == account.access_token # NULL /\ ~isTokenExpired(account.token_expiry)
             cachedTok == getDecryptedAccessToken(account)
         IN  IF useCache /\ cachedTok.threw
             THEN Fail(call, "Unsupported state or unable to authenticate data")
             ELSE IF useCache /\ cachedTok.value # NULL
             THEN Deliver([call EXCEPT !.cached = TRUE], cachedTok.value[1], account.email)
             ELSE IF getDecryptedRefreshToken(account) = <<>>
             THEN Fail(call, "Unsupported state or unable to authenticate data")
             ELSE [call EXCEPT !.pc = "refreshing", !.email = account.email,
                               !.raced = RefreshInFlight(account.email),
                               !.account = <<account.id>>]

(* getValidAccessToken(apiKey) of the client the SMTP listener calls, up to its *)
(* await or its return; the call's first argument is the session's API key     *)
getValidAccessTokenByApiKey(call) ==
    IF getAccountByApiKey(call.userEmail) = {}
    THEN Fail(call, "Invalid API key - account not found")
    ELSE LET account == CHOOSE r \in getAccountByApiKey(call.userEmail) : TRUE
         IN  IF account.access_token # NULL /\ ~isTokenExpired(account.token_expiry)
             THEN Deliver([call EXCEPT !.cached = TRUE], account.access_token.plain,
                          account.email)
             ELSE [call EXCEPT !.pc = "refreshing", !.email = account.email,
                               !.raced = RefreshInFlight(account.email),
                               !.account = <<account.id>>]

(* refreshAccessToken(): expiryDate of the response, expiry_date 0 when absent *)
RefreshedExpiryDate(expiry_date) ==
    IF expiry_date = 0 THEN DateNow + DefaultLifetimeMs ELSE expiry_date

(* the expiry kept in milliseconds *)
expiryInMilliseconds(expiryDate) ==
    expiryDate

(* Math.floor(refreshed.expiryDate / 1000) *)
expiryInSeconds(expiryDate) ==
    expiryDate \div 1000

(* a rejection answered with whatever access token the row still holds *)
RefreshRejectedFallsBack(call, message) ==
    IF \E r \in getAccountByEmail(call.email) : getDecryptedAccessToken(r).value # NULL
    THEN LET r == CHOOSE r \in getAccountByEmail(call.email) :
                      getDecryptedAccessToken(r).value # NULL
         IN  Deliver(call, getDecryptedAccessToken(r).value[1], call.email)
    ELSE Fail(call, message)

(* the awaited refreshAccessToken() throws: the rejection leaves getValidAccessToken *)
(* and sendEmailViaGmail uncaught *)
RefreshRejected(call, message) ==
    Fail(call, message)

(* the invocation slots are used in order *)
FirstIdle(c) ==
    /\ calls[c].pc = "idle"
    /\ \A d \in CallIds : d < c => calls[d].pc # "idle"

(* sendEmailViaGmail(userEmail, message), up to the first await or the POST *)
StartCall(c, userEmail, from, session, identity) ==
    calls' = [calls EXCEPT ![c] =
        getValidAccessToken([IdleCall EXCEPT !.userEmail = userEmail, !.from = from,
                                             !.session = session, !.identity = identity])]

(* an exported call of sendEmailViaGmail(userEmail, message) *)
SendEmailViaGmail(c, userEmail, from) ==
    /\ FirstIdle(c)
    /\ StartCall(c, userEmail, from, "", "")
    /\ UNCHANGED <<crypto, written, oauthVars, accounts, nextId, now, minted, sessions, keyOf, retired>>

(* a failed refresh that also empties the access_token column of the account *)
RefreshFailsClearsToken(c, message) ==
    /\ calls[c].pc = "refreshing"
    /\ calls' = [calls EXCEPT ![c] = RefreshRejected(calls[c], message)]
    /\ accounts' = {IF r.email = calls[c].email
                    THEN [r EXCEPT !.access_token = NULL, !.token_expiry = NULL]
                    ELSE r : r \in accounts}
    /\ UNCHANGED <<crypto, written, oauthVars, nextId, now, minted, sessions, keyOf, retired>>

(* the refresh collaborator rejects, or answers without an access token *)
RefreshFails(c, message) ==
    /\ calls[c].pc = "refreshing"
    /\ calls' = [calls EXCEPT ![c] = RefreshRejected(calls[c], message)]
    /\ UNCHANGED <<crypto, written, oauthVars, accounts, nextId, now, minted, sessions, keyOf, retired>>

(* a persist step that hands the token on although no row took it *)
RefreshReturnsDeliversAnyway(c, expiry_date, n) ==
    /\ calls[c].pc = "refreshing"
    /\ calls[c].session = ""
    /\ Len(minted) < MaxIssued
    /\ LET accessToken == Len(minted) + 1
           expiryDate == RefreshedExpiryDate(expiry_date)
           answered == [calls[c] EXCEPT !.resp =
                           <<[accessToken |-> accessToken, expiryDate |-> expiryDate]>>]
       IN  /\ minted' = Append(minted, expiryDate)
           /\ accounts' = updateAccessToken(calls[c].email, accessToken,
                                            expiryInSeconds(expiryDate), n)
           /\ calls' = [calls EXCEPT ![c] = Deliver(answered, accessToken, calls[c].email)]
    /\ UNCHANGED <<crypto, written, oauthVars, nextId, now, sessions, keyOf, retired>>

(* the refresh collaborator answers; getValidAccessToken persists and returns *)
RefreshReturns(c, expiry_date, n) ==
    /\ calls[c].pc = "refreshing"
    /\ calls[c].session = ""
    /\ Len(minted) < MaxIssued
    /\ LET accessToken == Len(minted) + 1
           expiryDate == RefreshedExpiryDate(expiry_date)
           answered == [calls[c] EXCEPT !.resp =
                           <<[accessToken |-> accessToken, expiryDate |-> expiryDate]>>]
       IN  /\ minted' = Append(minted, expiryDate)
           /\ IF accountExists(calls[c].email)
              THEN /\ accounts' = updateAccessToken(calls[c].email, accessToken,
                                                    expiryInSeconds(expiryDate), n)
                   /\ calls' = [calls EXCEPT ![c] =
                                   Deliver(answered, accessToken, calls[c].email)]
              ELSE /\ accounts' = accounts
                   /\ calls' = [calls EXCEPT ![c] =
                                   Fail(answered, "Account not found: " \o calls[c].email)]
    /\ UNCHANGED <<crypto, written, oauthVars, nextId, now, sessions, keyOf, retired>>

(* the same answer arriving in the client the SMTP listener calls *)
RelayRefreshReturns(c, expiry_date) ==
    /\ calls[c].pc = "refreshing"
    /\ calls[c].session # ""
    /\ Len(minted) < MaxIssued
    /\ LET accessToken == Len(minted) + 1
           expiryDate == RefreshedExpiryDate(expiry_date)
           answered == [calls[c] EXCEPT !.resp =
                           <<[accessToken |-> accessToken, expiryDate |-> expiryDate]>>]
       IN  /\ minted' = Append(minted, expiryDate)
           /\ IF accountExists(calls[c].email)
              THEN /\ accounts' = updateTokens(calls[c].email, accessToken,
                                               expiryInSeconds(expiryDate))
                   /\ calls' = [calls EXCEPT ![c] =
                                   Deliver(answered, accessToken, calls[c].email)]
              ELSE /\ accounts' = accounts
                   /\ calls' = [calls EXCEPT ![c] =
                                   Fail(answered, "Account not found: " \o calls[c].email)]
    /\ UNCHANGED <<crypto, written, oauthVars, nextId, now, sessions, keyOf, retired>>

(* the Gmail API answers the POST *)
GmailMessage(status) ==
    CASE status = 401 -> "Gmail API authentication failed. Token may be revoked."
      [] status = 403 -> "Gmail API permission denied. Check OAuth scopes."
      [] status = 429 -> "Gmail API rate limit exceeded. Try again later."
      [] OTHER -> "Gmail API error: " \o ToString(status)

(* a client that drops the cached token of the account when the API rejects it *)
GmailRespondsDropsToken(c, status) ==
    /\ calls[c].pc = "sending"
    /\ calls' = [calls EXCEPT ![c] =
          IF status = 200 THEN [calls[c] EXCEPT !.pc = "sent"]
          ELSE Fail(calls[c], GmailMessage(status))]
    /\ accounts' = IF status = 401
                   THEN {IF r.email = calls[c].email
                         THEN [r EXCEPT !.access_token = NULL, !.token_expiry = NULL]
                         ELSE r : r \in accounts}
                   ELSE accounts
    /\ UNCHANGED <<crypto, written, oauthVars, nextId, now, minted, sessions, keyOf, retired>>

GmailResponds(c, status) ==
    /\ calls[c].pc = "sending"
    /\ calls' = [calls EXCEPT ![c] =
          IF status = 200 THEN [calls[c] EXCEPT !.pc = "sent"]
          ELSE Fail(calls[c], GmailMessage(status))]
    /\ UNCHANGED <<crypto, written, oauthVars, accounts, nextId, now, minted, sessions, keyOf, retired>>

(* sendEmailViaGmail has returned or thrown and its caller has taken the outcome *)
Settle(c) ==
    /\ calls[c].pc \in {"sent", "failed"}
    /\ calls' = [calls EXCEPT ![c] = IdleCall]
    /\ UNCHANGED <<crypto, written, oauthVars, accounts, nextId, now, minted, sessions, keyOf, retired>>

Tick ==
    /\ now < MaxTicks * TickStep
    /\ now' = now + TickStep
    /\ UNCHANGED <<crypto, written, oauthVars, accounts, nextId, minted, calls, sessions, keyOf, retired>>

-----------------------------------------------------------------------------
(* Callers of the account store *)

CreateAccount(email, refreshToken, apiKey, s, n) ==
    /\ nextId <= MaxId
    /\ accounts' = createAccount(email, refreshToken, apiKey, s, n)
    /\ nextId' = IF accounts' # accounts THEN nextId + 1 ELSE nextId
    /\ keyOf' = IF accounts' # accounts THEN [keyOf EXCEPT ![email] = apiKey] ELSE keyOf
    /\ written' = IF accounts' # accounts THEN [written EXCEPT ![email] = <<refreshToken>>]
                   ELSE written
    /\ UNCHANGED <<crypto, oauthVars, now, minted, calls, sessions, retired>>

(* the registration callback of the older routes: a generated key, values as given *)
CreateAccountPlain(email, refreshToken) ==
    /\ nextId <= MaxId
    /\ getAccountByEmail(email) = {}
    /\ accounts' = createAccountPlain(email, refreshToken, GeneratedKey(nextId))
    /\ nextId' = nextId + 1
    /\ keyOf' = [keyOf EXCEPT ![email] = GeneratedKey(nextId)]
    /\ written' = [written EXCEPT ![email] = <<refreshToken>>]
    /\ UNCHANGED <<crypto, oauthVars, now, minted, calls, sessions, retired>>

UpdateApiKey(email, apiKey, s) ==
    /\ accountExists(email)
    /\ ApiKeyUpdateAllowed(email, bcryptHash(apiKey, s))
    /\ accounts' = updateApiKey(email, apiKey, s)
    /\ keyOf' = [keyOf EXCEPT ![email] = apiKey]
    /\ retired' = [retired EXCEPT ![email] = @ \cup {keyOf[email]}]
    /\ UNCHANGED <<crypto, written, oauthVars, nextId, now, minted, calls, sessions>>

UpdateRefreshToken(email, refreshToken, n) ==
    /\ accountExists(email)
    /\ accounts' = updateRefreshToken(email, refreshToken, n)
    /\ written' = [written EXCEPT ![email] = <<refreshToken>>]
    /\ UNCHANGED <<crypto, oauthVars, nextId, now, minted, calls, sessions, keyOf, retired>>

(* what deleteAccount(email) returns: result.changes > 0 *)
deleteAccountReturns(email) ==
    Cardinality(accounts \ deleteAccount(email)) > 0

DeleteAccount(email) ==
    /\ accounts' = deleteAccount(email)
    /\ keyOf' = [keyOf EXCEPT ![email] = ""]
    /\ retired' = [retired EXCEPT ![email] = {}]
    /\ written' = [written EXCEPT ![email] = NULL]
    /\ UNCHANGED <<crypto, oauthVars, nextId, now, minted, calls, sessions>>

-----------------------------------------------------------------------------
(* Registration routes: GET /auth/callback and GET /auth/status/:email *)

MaxFlows == 2
FlowIds == 1..MaxFlows
Codes == {"C1", "C2"}
Actions == {"register", "regenerate"}

GMAIL_SEND_SCOPE == "https://www.googleapis.com/auth/gmail.send"
USERINFO_EMAIL_SCOPE == "https://www.googleapis.com/auth/userinfo.email"

(* tokens.scope as the set of the scopes it lists *)
Scopes == {{GMAIL_SEND_SCOPE, USERINFO_EMAIL_SCOPE}, {USERINFO_EMAIL_SCOPE}, {}}

(* a scope check that every grant passes *)
scopeIncludesAnything(scope, name) == TRUE

(* tokens.scope.includes(GMAIL_SEND_SCOPE) *)
scopeIncludes(scope, name) ==
    name \in scope

(* what the provider hands out for an authorization code *)
TokensOf(code, scope) ==
    [accessToken |-> "at_" \o code, refreshToken |-> "rt_" \o code, scope |-> scope]

IdleFlow ==
    [ pc |-> "idle", state |-> "", code |-> "", tokens |-> NULL, revoke |-> "",
      response |-> NULL ]

(* res.status(status).send(page): the page, the email and the key it prints, *)
(* and the error message of the failure page                                 *)
Response(status, page, email, key, detail) ==
    <<[status |-> status, page |-> page, email |-> email, key |-> key, detail |-> detail]>>

Respond(flow, response) ==
    [flow EXCEPT !.pc = "done", !.response = response]

(* messages of the errors the awaited calls of the callback can throw *)
ErrorMessages ==
    { "invalid_grant", "Bad Request", "Something unexpected happened",
      "No refresh token received. User may have already authorized this app.",
      "Failed to fetch user info: Unauthorized",
      "Failed to fetch user info: Bad Request" }

(* a catch block that knows no expired code *)
isCodeExpiredNever(errorMessage) == FALSE

(* the catch block's isCodeExpired: the lower-cased message includes one of    *)
(* 'invalid_grant', 'code was already redeemed', 'code has expired', 'bad request' *)
isCodeExpired(errorMessage) ==
    errorMessage \in {"invalid_grant", "Bad Request", "Failed to fetch user info: Bad Request"}

(* catch (err) of the callback *)
catchBlock(flow, errorMessage) ==
    IF isCodeExpired(errorMessage)
    THEN Respond(flow, Response(400, "Page Expired", "", "", ""))
    ELSE Respond(flow, Response(500, "Registration Failed", "", "", errorMessage))

(* the request slots are used in order *)
FirstIdleFlow(f) ==
    /\ flows[f].pc = "idle"
    /\ \A g \in FlowIds : g < f => flows[g].pc # "idle"

(* a callback that looks at the code before it looks at the error parameter *)
CallbackArrivesCodeFirst(f, code, state, error) ==
    /\ FirstIdleFlow(f)
    /\ flows' = [flows EXCEPT ![f] =
          IF code # ""
          THEN [IdleFlow EXCEPT !.pc = "exchanging", !.state = state, !.code = code]
          ELSE IF error # ""
          THEN Respond([IdleFlow EXCEPT !.state = state, !.code = code],
                       Response(400, "Authorization Cancelled", "", "", error))
          ELSE Respond([IdleFlow EXCEPT !.state = state],
                       Response(400, "No authorization code", "", "", ""))]
    /\ UNCHANGED <<crypto, written, accounts, nextId, now, minted, calls, sessions, keyOf, retired,
                   redeemed, revoked, nkeys>>

(* GET /auth/callback?code=&state=&error= up to the await of the exchange *)
CallbackArrives(f, code, state, error) ==
    /\ FirstIdleFlow(f)
    /\ flows' = [flows EXCEPT ![f] =
          IF error # ""
          THEN Respond([IdleFlow EXCEPT !.state = state, !.code = code],
                       Response(400, "Authorization Cancelled", "", "", error))
          ELSE IF code = ""
          THEN Respond([IdleFlow EXCEPT !.state = state],
                       Response(400, "No authorization code", "", "", ""))
          ELSE [IdleFlow EXCEPT !.pc = "exchanging", !.state = state, !.code = code]]
    /\ UNCHANGED <<crypto, written, accounts, nextId, now, minted, calls, sessions, keyOf, retired,
                   redeemed, revoked, nkeys>>

(* exchangeCodeForTokens throws: the provider refuses the code (a redeemed code *)
(* is refused with invalid_grant or Bad Request), or the call fails after the  *)
(* provider took the code, as when its answer lacks a refresh token            *)
ExchangeFails(f, message) ==
    /\ flows[f].pc = "exchanging"
    /\ flows[f].code \in redeemed => message \in {"invalid_grant", "Bad Request"}
    /\ flows' = [flows EXCEPT ![f] = catchBlock(flows[f], message)]
    /\ redeemed' = IF message \in {"invalid_grant", "Bad Request"} THEN redeemed
                   ELSE redeemed \cup {flows[f].code}
    /\ UNCHANGED <<crypto, written, accounts, nextId, now, minted, calls, sessions, keyOf, retired,
                   revoked, nkeys>>

(* exchangeCodeForTokens returns; the scope check follows without an await, and *)
(* revokeToken sends its request before it awaits the answer                   *)
ExchangeReturns(f, scope) ==
    /\ flows[f].pc = "exchanging"
    /\ flows[f].code \notin redeemed
    /\ redeemed' = redeemed \cup {flows[f].code}
    /\ LET tokens == TokensOf(flows[f].code, scope)
       IN  IF ~scopeIncludes(tokens.scope, GMAIL_SEND_SCOPE)
           THEN /\ revoked' = revoked \cup {tokens.accessToken}
                /\ flows' = [flows EXCEPT ![f].pc = "revoking", ![f].tokens = <<tokens>>]
           ELSE /\ revoked' = revoked
                /\ flows' = [flows EXCEPT ![f].pc = "resolving", ![f].tokens = <<tokens>>]
    /\ UNCHANGED <<crypto, written, accounts, nextId, now, minted, calls, sessions, keyOf, retired, nkeys>>

(* how the POST of revokeToken ends: an OK response, a response that is not OK, *)
(* a rejected fetch (a network error, or the HTTP client giving up on a server  *)
(* that sends no answer)                                                        *)
RevokeOutcomes == {"ok", "not ok", "error"}

(* a revokeToken without its try/catch: a rejected fetch leaves it as a throw *)
revokeTokenRethrows(outcome) ==
    IF outcome = "ok" THEN [threw |-> FALSE, log |-> "Token successfully revoked"]
    ELSE IF outcome = "not ok"
    THEN [threw |-> FALSE, log |-> "Token revoke request failed (may already be revoked)"]
    ELSE [threw |-> TRUE, log |-> ""]

(* revokeToken(accessToken) once its fetch has ended: what it logs, and whether *)
(* it throws                                                                    *)
revokeToken(outcome) ==
    IF outcome = "ok" THEN [threw |-> FALSE, log |-> "Token successfully revoked"]
    ELSE IF outcome = "not ok"
    THEN [threw |-> FALSE, log |-> "Token revoke request failed (may already be revoked)"]
    ELSE [threw |-> FALSE, log |-> "Token revoke error"]

(* the awaited revokeToken settles: the Missing Permission page, or the catch *)
(* block had it thrown                                                        *)
RevokeSettles(f, outcome) ==
    /\ flows[f].pc = "revoking"
    /\ flows' = [flows EXCEPT ![f] =
          LET settled == revokeToken(outcome)
              flow == [flows[f] EXCEPT !.revoke = settled.log]
          IN  IF settled.threw
              THEN catchBlock(flow, "fetch failed")
              ELSE Respond(flow, Response(400, "Missing Permission", "", "", ""))]
    /\ UNCHANGED <<crypto, written, accounts, nextId, now, minted, calls, sessions, keyOf, retired,
                   redeemed, revoked, nkeys>>

(* getUserEmail throws *)
UserEmailFails(f, message) ==
    /\ flows[f].pc = "resolving"
    /\ flows' = [flows EXCEPT ![f] = catchBlock(flows[f], message)]
    /\ UNCHANGED <<crypto, written, accounts, nextId, now, minted, calls, sessions, keyOf, retired,
                   redeemed, revoked, nkeys>>

(* a callback that ignores the state parameter *)
isRegenerateNever(state) == FALSE

(* isRegenerate *)
isRegenerate(state) == state = "regenerate"

(* a callback that never looks the account up before registering *)
callbackBranchNoLookup(email, state) ==
    IF isRegenerate(state) /\ getAccountByEmail(email) = {} THEN "Account Not Found"
    ELSE IF isRegenerate(state) THEN "API Key Regenerated"
    ELSE "Registration Successful"

(* a callback for which regeneration of a missing account is a registration *)
callbackBranchRegistersMissing(email, state) ==
    IF getAccountByEmail(email) # {} /\ isRegenerate(state) THEN "API Key Regenerated"
    ELSE IF getAccountByEmail(email) # {} THEN "Already Registered"
    ELSE "Registration Successful"

(* the branch the callback takes once the email is known *)
callbackBranch(email, state) ==
    IF getAccountByEmail(email) = {} /\ isRegenerate(state) THEN "Account Not Found"
    ELSE IF getAccountByEmail(email) # {} /\ isRegenerate(state) THEN "API Key Regenerated"
    ELSE IF getAccountByEmail(email) # {} THEN "Already Registered"
    ELSE "Registration Successful"

(* an Already Registered page whose password line is the api_key column *)
alreadyRegisteredPageStoredKey(email) ==
    Response(200, "Already Registered", email,
             (CHOOSE row \in getAccountByEmail(email) : TRUE).api_key, "")

(* the Already Registered page: the password line is a placeholder *)
alreadyRegisteredPage(email) ==
    Response(200, "Already Registered", email, "", "")

(* getUserEmail returns; lookup, store write and response follow without an await *)
UserEmailReturns(f, email, s, n) ==
    /\ flows[f].pc = "resolving"
    /\ LET branch == callbackBranch(email, flows[f].state)
           apiKey == GeneratedKey(nkeys + 1)
           tokens == flows[f].tokens[1]
       IN  CASE branch = "Account Not Found" ->
                  /\ flows' = [flows EXCEPT ![f] =
                        Respond(flows[f], Response(400, "Account Not Found", email, "", ""))]
                  /\ UNCHANGED <<crypto, written, accounts, nextId, keyOf, retired, nkeys>>
             [] branch = "API Key Regenerated" ->
                  /\ apiKey \in PlainKeys
                  /\ nkeys' = nkeys + 1
                  /\ nextId' = nextId
                  /\ IF ApiKeyUpdateAllowed(email, bcryptHash(apiKey, s))
                     THEN /\ accounts' = updateApiKey(email, apiKey, s)
                          /\ keyOf' = [keyOf EXCEPT ![email] = apiKey]
                          /\ retired' = [retired EXCEPT ![email] = @ \cup {keyOf[email]}]
                          /\ written' = written
                          /\ flows' = [flows EXCEPT ![f] =
                                Respond(flows[f],
                                        Response(200, "API Key Regenerated", email, apiKey, ""))]
                     ELSE /\ flows' = [flows EXCEPT ![f] =
                                catchBlock(flows[f], "UNIQUE constraint failed: accounts.api_key")]
                          /\ UNCHANGED <<crypto, written, accounts, keyOf, retired>>
             [] branch = "Already Registered" ->
                  /\ flows' = [flows EXCEPT ![f] = Respond(flows[f], alreadyRegisteredPage(email))]
                  /\ UNCHANGED <<crypto, written, accounts, nextId, keyOf, retired, nkeys>>
             [] branch = "Registration Successful" ->
                  /\ apiKey \in PlainKeys
                  /\ nextId <= MaxId
                  /\ nkeys' = nkeys + 1
                  /\ retired' = retired
                  /\ IF InsertAllowed(email, bcryptHash(apiKey, s))
                     THEN /\ accounts' = createAccount(email, tokens.refreshToken, apiKey, s, n)
                          /\ nextId' = nextId + 1
                          /\ keyOf' = [keyOf EXCEPT ![email] = apiKey]
                          /\ written' = [written EXCEPT ![email] = <<tokens.refreshToken>>]
                          /\ flows' = [flows EXCEPT ![f] =
                                Respond(flows[f],
                                        Response(200, "Registration Successful", email, apiKey, ""))]
                     ELSE /\ flows' = [flows EXCEPT ![f] =
                                catchBlock(flows[f], "UNIQUE constraint failed: accounts.api_key")]
                          /\ UNCHANGED <<crypto, written, accounts, nextId, keyOf>>
    /\ UNCHANGED <<crypto, now, minted, calls, sessions, redeemed, revoked>>

(* the Already Registered page of the older routes: the password line is the *)
(* api_key column of the row found                                            *)
alreadyRegisteredPageLegacy(existingAccount) ==
    Response(200, "Already Registered", existingAccount.email, existingAccount.api_key, "")

(* the older callback after getUserEmail: no regenerate branch, the older store *)
UserEmailReturnsLegacy(f, email) ==
    /\ flows[f].pc = "resolving"
    /\ LET existingAccount == getAccountByEmail(email)
           apiKey == GeneratedKey(nkeys + 1)
           tokens == flows[f].tokens[1]
       IN  IF existingAccount # {}
           THEN /\ flows' = [flows EXCEPT ![f] =
                      Respond(flows[f],
                              alreadyRegisteredPageLegacy(CHOOSE r \in existingAccount : TRUE))]
                /\ UNCHANGED <<crypto, accounts, nextId, keyOf, nkeys, written>>
           ELSE /\ apiKey \in PlainKeys
                /\ nextId <= MaxId
                /\ nkeys' = nkeys + 1
                /\ accounts' = createAccountPlain(email, tokens.refreshToken, apiKey)
                /\ nextId' = nextId + 1
                /\ keyOf' = [keyOf EXCEPT ![email] = apiKey]
                /\ written' = [written EXCEPT ![email] = <<tokens.refreshToken>>]
                /\ flows' = [flows EXCEPT ![f] =
                      Respond(flows[f],
                              Response(200, "Registration Successful", email, apiKey, ""))]
    /\ UNCHANGED <<crypto, now, minted, calls, sessions, retired, redeemed, revoked>>

(* an authorization URL that carries the default action whatever the route asks *)
getAuthorizationUrlDefaultAction(action) ==
    [ access_type |-> "offline", scope |-> {GMAIL_SEND_SCOPE, USERINFO_EMAIL_SCOPE},
      prompt |-> "consent", state |-> "register" ]

(* getAuthorizationUrl(action): the query parameters of the consent URL *)
getAuthorizationUrl(action) ==
    [ access_type |-> "offline", scope |-> {GMAIL_SEND_SCOPE, USERINFO_EMAIL_SCOPE},
      prompt |-> "consent", state |-> action ]

(* res.redirect(authUrl): status 302; of the Location the state parameter is kept *)
Redirect(authUrl) ==
    Response(302, "Redirect", "", "", authUrl.state)

(* GET /auth/register *)
AuthRegister(f) ==
    /\ FirstIdleFlow(f)
    /\ flows' = [flows EXCEPT ![f] = Respond(IdleFlow, Redirect(getAuthorizationUrl("register")))]
    /\ UNCHANGED <<crypto, written, accounts, nextId, now, minted, calls, sessions, keyOf, retired,
                   redeemed, revoked, nkeys>>

(* GET /auth/regenerate *)
AuthRegenerate(f) ==
    /\ FirstIdleFlow(f)
    /\ flows' = [flows EXCEPT ![f] = Respond(IdleFlow, Redirect(getAuthorizationUrl("regenerate")))]
    /\ UNCHANGED <<crypto, written, accounts, nextId, now, minted, calls, sessions, keyOf, retired,
                   redeemed, revoked, nkeys>>

(* GET /auth/status/:email: the JSON body *)
statusRoute(email) ==
    IF getAccountByEmail(email) # {}
    THEN LET account == CHOOSE r \in getAccountByEmail(email) : TRUE
         IN  [ registered     |-> TRUE,
               email          |-> account.email,
               createdAt      |-> account.created_at * 1000,
               hasAccessToken |-> account.access_token # NULL ]
    ELSE [ registered |-> FALSE, email |-> email ]

-----------------------------------------------------------------------------
(* SMTP listener callbacks: onConnect, onAuth, onData *)

MissingCredentials == "Username and password are required"
AccountNotRegistered == "Account not registered. Please register at /auth/register"
InvalidApiKey == "Invalid API key"
EmailMismatch == "Email does not match the API key"
NotAuthenticated == "Not authenticated - missing API key or email"
NoRecipient == "Failed to relay email: No recipient specified"

NewSession ==
    [ userEmail |-> "", apiKey |-> "", reply |-> "", dataReply |-> "", lookups |-> <<>> ]

(* onAuth answering every rejection with one message *)
onAuthErrorGeneric(username, password) ==
    IF username = "" \/ password = ""
    THEN "Authentication failed"
    ELSE IF getAccountByApiKey(password) = {}
    THEN "Authentication failed"
    ELSE LET account == CHOOSE r \in getAccountByApiKey(password) : TRUE
         IN  IF ToLowerCase(account.email) # ToLowerCase(username)
             THEN "Authentication failed"
             ELSE ""

(* onAuth: the error given to the callback, "" when it is callback(null, {user}) *)
onAuthError(username, password) ==
    IF username = "" \/ password = ""
    THEN MissingCredentials
    ELSE IF getAccountByApiKey(password) = {}
    THEN IF getAccountByEmail(username) = {}
         THEN AccountNotRegistered
         ELSE InvalidApiKey
    ELSE LET account == CHOOSE r \in getAccountByApiKey(password) : TRUE
         IN  IF ToLowerCase(account.email) # ToLowerCase(username)
             THEN EmailMismatch
             ELSE ""

(* an onAuth that queries the table before it looks at the credentials *)
onAuthLookupsFirst(username, password) ==
    IF getAccountByApiKey(password) = {}
    THEN <<"getAccountByApiKey", "getAccountByEmail">>
    ELSE <<"getAccountByApiKey">>

(* onAuth: the queries it makes on the accounts table, in order *)
onAuthLookups(username, password) ==
    IF username = "" \/ password = ""
    THEN <<>>
    ELSE IF getAccountByApiKey(password) = {}
    THEN <<"getAccountByApiKey", "getAccountByEmail">>
    ELSE <<"getAccountByApiKey">>

(* onAuth: the account whose email is attached to the session on success *)
onAuthUser(password) ==
    (CHOOSE r \in getAccountByApiKey(password) : TRUE).email

(* a new connection takes the place of a closed one *)
SmtpConnect(s) ==
    /\ sessions[s] # NewSession
    /\ sessions' = [sessions EXCEPT ![s] = NewSession]
    /\ UNCHANGED <<crypto, written, oauthVars, accounts, nextId, now, minted, calls, keyOf, retired>>

(* AUTH PLAIN/LOGIN; the listener refuses AUTH on a session that has an identity *)
SmtpAuth(s, username, password) ==
    /\ sessions[s].userEmail = ""
    /\ sessions' = [sessions EXCEPT ![s] =
          IF onAuthError(username, password) # ""
          THEN [@ EXCEPT !.reply = onAuthError(username, password),
                         !.lookups = onAuthLookups(username, password)]
          ELSE [@ EXCEPT !.reply = "OK", !.apiKey = password,
                         !.userEmail = onAuthUser(password),
                         !.lookups = onAuthLookups(username, password)]]
    /\ UNCHANGED <<crypto, written, oauthVars, accounts, nextId, now, minted, calls, keyOf, retired>>

(* handleIncomingEmail: a header-supplied sender in place of the session's *)
messageFromHeader(headerFrom, userEmail) ==
    headerFrom

(* handleIncomingEmail: message.from is userEmail, whatever parsed.from holds *)
messageFrom(headerFrom, userEmail) ==
    userEmail

(* onData -> handleIncomingEmail(stream, session) *)
SmtpData(s, headerFrom, to, c) ==
    /\ FirstIdle(c)
    /\ IF sessions[s].apiKey = "" \/ sessions[s].userEmail = ""
       THEN /\ sessions' = [sessions EXCEPT ![s].dataReply = NotAuthenticated]
            /\ calls' = calls
       ELSE IF to = ""
       THEN /\ sessions' = [sessions EXCEPT ![s].dataReply = NoRecipient]
            /\ calls' = calls
       ELSE /\ sessions' = [sessions EXCEPT ![s].dataReply = ""]
            /\ calls' = [calls EXCEPT ![c] =
                  getValidAccessTokenByApiKey(
                      [IdleCall EXCEPT !.userEmail = sessions[s].apiKey,
                                       !.from = messageFrom(headerFrom, sessions[s].userEmail),
                                       !.session = s,
                                       !.identity = sessions[s].userEmail,
                                       !.header = headerFrom])]
    /\ UNCHANGED <<crypto, written, oauthVars, accounts, nextId, now, minted, keyOf, retired>>

-----------------------------------------------------------------------------
(* Callers of encrypt and decrypt *)

NoCrypto ==
    [ plaintext |-> <<>>, envelopes |-> <<>>, call |-> "", input |-> <<>>, altered |-> "",
      output |-> NULL ]

(* the nonces of the envelopes returned so far *)
UsedIvs == {fromHex(split(crypto.envelopes[k])[1]) : k \in 1..Len(crypto.envelopes)}

(* encrypt(plaintext); the generator returns a nonce it has not returned before *)
Encrypt(plaintext, iv) ==
    /\ crypto.envelopes = <<>> \/ plaintext = crypto.plaintext
    /\ iv \notin UsedIvs
    /\ crypto' = [NoCrypto EXCEPT !.plaintext = plaintext,
                                  !.envelopes = Append(crypto.envelopes,
                                                       encryptText(plaintext, iv))]
    /\ UNCHANGED relayVars

(* the outcome of decrypt(input); the call recorded is the one that follows *)
(* the last call of encrypt                                                 *)
Decrypted(input, altered) ==
    [crypto EXCEPT !.call = "decrypt", !.input = input, !.altered = altered,
                   !.output = <<decryptText(input)>>]

(* decrypt(encrypted) of an envelope encrypt returned *)
Decrypt(k) ==
    /\ crypto.output = NULL
    /\ k \in 1..Len(crypto.envelopes)
    /\ crypto' = Decrypted(crypto.envelopes[k], "")
    /\ UNCHANGED relayVars

(* `${parts[0]}:${parts[1]}:${parts[2]}` *)
join(parts) ==
    parts[1] \o <<COLON>> \o parts[2] \o <<COLON>> \o parts[3]

SegmentName(seg) == IF seg = 2 THEN "tag" ELSE "ciphertext"

(* a character put in the place of c: the next hex digit, the same digit in *)
(* upper case, a character that is no hex digit, a colon                    *)
AlteredChar(c, how) ==
    IF how = "flip" THEN (c + 1) % 16
    ELSE IF how = "upper" THEN (IF c \in 10..15 THEN c + 20 ELSE c)
    ELSE IF how = "nonhex" THEN NON_HEX
    ELSE COLON

(* decrypt of an envelope with one character of its tag or ciphertext replaced *)
DecryptAlteredChar(k, seg, pos, how) ==
    /\ crypto.output = NULL
    /\ k \in 1..Len(crypto.envelopes)
    /\ LET parts == split(crypto.envelopes[k])
       IN  /\ pos \in 1..Len(parts[seg])
           /\ AlteredChar(parts[seg][pos], how) # parts[seg][pos]
           /\ crypto' = Decrypted(
                  join([parts EXCEPT ![seg] = [@ EXCEPT ![pos] = AlteredChar(@, how)]]),
                  SegmentName(seg))
    /\ UNCHANGED relayVars

(* decrypt of an envelope with its tag or ciphertext cut to its first len characters *)
DecryptTruncated(k, seg, len) ==
    /\ crypto.output = NULL
    /\ k \in 1..Len(crypto.envelopes)
    /\ LET parts == split(crypto.envelopes[k])
       IN  /\ len < Len(parts[seg])
           /\ crypto' = Decrypted(join([parts EXCEPT ![seg] = SubSeq(@, 1, len)]),
                                  SegmentName(seg))
    /\ UNCHANGED relayVars

(* decrypt of an envelope with characters added to its tag or ciphertext *)
DecryptExtended(k, seg, suffix) ==
    /\ crypto.output = NULL
    /\ k \in 1..Len(crypto.envelopes)
    /\ LET parts == split(crypto.envelopes[k])
       IN  crypto' = Decrypted(join([parts EXCEPT ![seg] = @ \o suffix]), SegmentName(seg))
    /\ UNCHANGED relayVars

(* decrypt of a string that has not three segments: '', 'part1', 'part1:part2', *)
(* and an envelope with a fourth segment                                        *)
DecryptMalformed(k, segments) ==
    /\ crypto.output = NULL
    /\ k \in 1..Len(crypto.envelopes)
    /\ LET parts == split(crypto.envelopes[k])
       IN  crypto' = Decrypted(
              IF segments = 0 THEN <<>>
              ELSE IF segments = 1 THEN parts[1]
              ELSE IF segments = 2 THEN parts[1] \o <<COLON>> \o parts[2]
              ELSE join(parts) \o <<COLON>> \o parts[3],
              "format")
    /\ UNCHANGED relayVars

(* what a token column can hold in place of the envelope encrypt returned: the *)
(* envelope itself, the envelope with a digit of its nonce, tag or ciphertext   *)
(* changed, the envelope cut inside its nonce, inside its tag (its last segment *)
(* lost) and inside its ciphertext                                              *)
Damages == {"", "nonce", "tag", "ciphertext", "cut nonce", "cut tag", "cut ciphertext"}

StoredValue(envelope, damage) ==
    LET parts == split(envelope)
        Changed(seg) == join([parts EXCEPT ![seg] = [@ EXCEPT ![1] = (@ + 1) % 16]])
    IN  IF damage = "" THEN envelope
        ELSE IF damage = "nonce" THEN Changed(1)
        ELSE IF damage = "tag" THEN Changed(2)
        ELSE IF damage = "ciphertext" THEN Changed(3)
        ELSE IF damage = "cut nonce" THEN SubSeq(envelope, 1, IV_LENGTH)
        ELSE IF damage = "cut tag" THEN SubSeq(envelope, 1, 2 * IV_LENGTH + 1 + AUTH_TAG_LENGTH)
        ELSE SubSeq(envelope, 1, Len(envelope) - 1)

(* getDecryptedRefreshToken(account) of a row whose refresh_token is the k-th *)
(* envelope with the damage                                                  *)
GetDecryptedRefreshToken(k, damage) ==
    /\ crypto.output = NULL
    /\ k \in 1..Len(crypto.envelopes)
    /\ LET stored == StoredValue(crypto.envelopes[k], damage)
       IN  /\ damage = "" \/ stored # crypto.envelopes[k]
           /\ crypto' = [crypto EXCEPT
              !.call = "getDecryptedRefreshToken", !.input = stored, !.altered = damage,
              !.output = <<getDecryptedRefreshTokenText([refresh_token |-> stored])>>]
    /\ UNCHANGED relayVars

(* getDecryptedAccessToken(account) of a row whose access_token is the k-th *)
(* envelope with the damage                                                 *)
GetDecryptedAccessToken(k, damage) ==
    /\ crypto.output = NULL
    /\ k \in 1..Len(crypto.envelopes)
    /\ LET stored == StoredValue(crypto.envelopes[k], damage)
       IN  /\ damage = "" \/ stored # crypto.envelopes[k]
           /\ crypto' = [crypto EXCEPT
              !.call = "getDecryptedAccessToken", !.input = stored, !.altered = damage,
              !.output = <<getDecryptedAccessTokenText([access_token |-> stored])>>]
    /\ UNCHANGED relayVars

-----------------------------------------------------------------------------
Init ==
    /\ accounts = {}
    /\ nextId = 1
    /\ now = 0
    /\ minted = <<>>
    /\ calls = [c \in CallIds |-> IdleCall]
    /\ sessions = [s \in SessionIds |-> NewSession]
    /\ keyOf = [e \in Emails |-> ""]
    /\ retired = [e \in Emails |-> {}]
    /\ flows = [f \in FlowIds |-> IdleFlow]
    /\ redeemed = {}
    /\ revoked = {}
    /\ nkeys = 0
    /\ written = [e \in Emails |-> NULL]
    /\ crypto = NoCrypto

(* Account store alone: every key and salt *)
StoreNext ==
    \/ \E e \in Emails, rt \in RefreshTokens, k \in PlainKeys, s \in Salts :
          CreateAccount(e, rt, k, s, "n1")
    \/ \E e \in Emails, k \in PlainKeys, s \in Salts : UpdateApiKey(e, k, s)
    \/ \E e \in Emails, rt \in RefreshTokens : UpdateRefreshToken(e, rt, "n1")
    \/ \E e \in Emails : DeleteAccount(e)
    \/ Tick

StoreSpec == Init /\ [][StoreNext]_vars

(* Token lifecycle: concurrent getValidAccessToken calls over one account that  *)
(* comes and goes; the collaborator omits expiry_date in its first answer only *)
TokenNext ==
    \/ \E e \in {"a@x"} : CreateAccount(e, "rt1", "sk_1", "s1", "n1")
    \/ \E e \in {"a@x"} : DeleteAccount(e)
    \/ Tick
    \/ \E c \in CallIds, e \in Emails : SendEmailViaGmail(c, e, e)
    \/ \E c \in CallIds, m \in {"invalid_grant", "Failed to refresh access token"} :
          RefreshFails(c, m)
    \/ \E c \in CallIds, l \in Lifetimes : RefreshReturns(c, (now + l) * 1000 + 500, "n1")
    \/ \E c \in CallIds : minted = <<>> /\ RefreshReturns(c, 0, "n1")
    \/ \E c \in CallIds, st \in {200, 401} : GmailResponds(c, st)
    \/ \E c \in CallIds : Settle(c)

TokenSpec == Init /\ [][TokenNext]_vars

(* Every writer of the accounts table: registration, key regeneration, refresh *)
(* token replacement, deletion and the refresh path of getValidAccessToken      *)
LifecycleNext ==
    \/ \E e \in Emails : CreateAccount(e, "rt1", "sk_1", "s1", "n1")
    \/ \E e \in Emails : UpdateApiKey(e, "sk_2", "s2")
    \/ \E e \in Emails : UpdateRefreshToken(e, "rt2", "n2")
    \/ \E e \in Emails : DeleteAccount(e)
    \/ Tick
    \/ \E c \in CallIds : SendEmailViaGmail(c, "a@x", "a@x")
    \/ \E c \in CallIds : RefreshReturns(c, (now + 400) * 1000 + 500, "n1")

LifecycleSpec == Init /\ [][LifecycleNext]_vars

(* SMTP sessions over the account store *)
SmtpNext ==
    \/ \E e \in Emails : CreateAccountPlain(e, "rt1")
    \/ \E e \in Emails : DeleteAccount(e)
    \/ \E s \in SessionIds : SmtpConnect(s)
    \/ \E s \in SessionIds, u \in Usernames, p \in Passwords : SmtpAuth(s, u, p)
    \/ \E s \in SessionIds, f \in {"b@x", "xa@x"}, to \in {"", "rcpt@y"} :
          SmtpData(s, f, to, 1)
    \/ \E c \in CallIds : RefreshFails(c, "invalid_grant")
    \/ \E c \in CallIds : RelayRefreshReturns(c, (now + 400) * 1000 + 500)
    \/ \E c \in CallIds, st \in {200, 401} : GmailResponds(c, st)
    \/ \E c \in CallIds : Settle(c)

SmtpSpec == Init /\ [][SmtpNext]_vars

(* Registration callbacks over the account store, interleaved at their awaits *)
RoutesNext ==
    \/ \E f \in FlowIds, code \in Codes \cup {""}, state \in Actions \cup {""},
          error \in {"", "access_denied"} : CallbackArrives(f, code, state, error)
    \/ \E f \in FlowIds, m \in ErrorMessages : ExchangeFails(f, m)
    \/ \E f \in FlowIds, scope \in Scopes : ExchangeReturns(f, scope)
    \/ \E f \in FlowIds, outcome \in RevokeOutcomes : RevokeSettles(f, outcome)
    \/ \E f \in FlowIds, m \in ErrorMessages : UserEmailFails(f, m)
    \/ \E f \in FlowIds, e \in Emails, s \in Salts : UserEmailReturns(f, e, s, "n1")
    \/ \E e \in Emails : DeleteAccount(e)

RoutesSpec == Init /\ [][RoutesNext]_vars

(* the provider hands every authorization a code of its own *)
GeneratedCode(f) == IF f = 1 THEN "C1" ELSE "C2"

(* Every writer of accounts and keys: the store functions called directly and *)
(* the registration callbacks                                                  *)
AccountsNext ==
    \/ \E e \in Emails, k \in PlainKeys, s \in Salts : CreateAccount(e, "rt1", k, s, "n1")
    \/ \E e \in Emails, k \in PlainKeys, s \in Salts : UpdateApiKey(e, k, s)
    \/ \E e \in Emails : DeleteAccount(e)
    \/ \E f \in {1, 2}, state \in Actions : CallbackArrives(f, GeneratedCode(f), state, "")
    \/ \E f \in {1, 2} : ExchangeReturns(f, {GMAIL_SEND_SCOPE, USERINFO_EMAIL_SCOPE})
    \/ \E f \in {1, 2}, e \in Emails : UserEmailReturns(f, e, "s1", "n1")

AccountsSpec == Init /\ [][AccountsNext]_vars

(* Every writer of refresh tokens next to the registration callbacks with *)
(* their failures                                                          *)
SecretsNext ==
    \/ \E e \in Emails, rt \in RefreshTokens, n \in Nonces :
          CreateAccount(e, rt, "sk_2", "s2", n)
    \/ \E e \in Emails, rt \in RefreshTokens, n \in Nonces : UpdateRefreshToken(e, rt, n)
    \/ \E e \in Emails : DeleteAccount(e)
    \/ \E f \in {1, 2}, state \in Actions : CallbackArrives(f, GeneratedCode(f), state, "")
    \/ \E f \in {1, 2}, scope \in Scopes : ExchangeReturns(f, scope)
    \/ \E f \in {1, 2}, m \in ErrorMessages : ExchangeFails(f, m)
    \/ \E f \in {1, 2}, outcome \in RevokeOutcomes : RevokeSettles(f, outcome)
    \/ \E f \in {1, 2}, m \in ErrorMessages : UserEmailFails(f, m)
    \/ \E f \in {1, 2}, e \in Emails : UserEmailReturns(f, e, "s1", "n1")

SecretsSpec == Init /\ [][SecretsNext]_vars

(* encrypt called once or twice on a plaintext, decrypt called on what encrypt *)
(* returned and, after the first call, on strings made from the envelope; the  *)
(* two readers of the store called on a column holding an envelope or what is  *)
(* left of it                                                                  *)
CryptoNext ==
    \/ \E plaintext \in Plaintexts, iv \in Ivs : Encrypt(plaintext, iv)
    \/ \E k \in 1..2 : Decrypt(k)
    \/ /\ Len(crypto.envelopes) = 1
       /\ \/ \E seg \in 2..3, pos \in 1..(2 * AUTH_TAG_LENGTH),
                how \in {"flip", "upper", "nonhex", "colon"} :
                DecryptAlteredChar(1, seg, pos, how)
          \/ \E seg \in 2..3, len \in 0..(2 * AUTH_TAG_LENGTH) : DecryptTruncated(1, seg, len)
          \/ \E seg \in 2..3, suffix \in {<<0>>, <<0, 0>>, <<NON_HEX, NON_HEX>>} :
                DecryptExtended(1, seg, suffix)
          \/ \E segments \in {0, 1, 2, 4} : DecryptMalformed(1, segments)
    \/ \E k \in 1..2, damage \in Damages : GetDecryptedRefreshToken(k, damage)
    \/ \E k \in 1..2, damage \in Damages : GetDecryptedAccessToken(k, damage)

CryptoSpec == Init /\ [][CryptoNext]_vars

(* getValidAccessToken over the rows the accounts table admits: access_token  *)
(* and token_expiry are two nullable columns, so a row can hold either without *)
(* the other. One account, found at start with any of these rows.              *)
StoredExpiries == {NULL, <<200>>, <<400>>, <<500>>}

RowsInit ==
    /\ nextId = 2
    /\ now = 0
    /\ \E token \in {NULL, encrypt(1, "n1")}, expiry \in StoredExpiries :
          /\ accounts = {[InsertedRow("a@x", encrypt("rt1", "n1"), bcryptHash("sk_1", "s1"))
                            EXCEPT !.id = 1, !.created_at = 0, !.updated_at = 0,
                                   !.access_token = token, !.token_expiry = expiry]}
          /\ minted = IF token = NULL THEN <<>> ELSE <<0>>
    /\ calls = [c \in CallIds |-> IdleCall]
    /\ sessions = [s \in SessionIds |-> NewSession]
    /\ keyOf = [e \in Emails |-> ""]
    /\ retired = [e \in Emails |-> {}]
    /\ flows = [f \in FlowIds |-> IdleFlow]
    /\ redeemed = {}
    /\ revoked = {}
    /\ nkeys = 0
    /\ written = [e \in Emails |-> NULL]
    /\ crypto = NoCrypto

RowsNext ==
    \/ Tick
    \/ \E c \in CallIds, e \in Emails : SendEmailViaGmail(c, e, e)
    \/ \E c \in CallIds, m \in {"invalid_grant", "Failed to refresh access token"} :
          RefreshFails(c, m)
    \/ \E c \in CallIds, l \in Lifetimes : RefreshReturns(c, (now + l) * 1000 + 500, "n1")
    \/ \E c \in CallIds, st \in {200, 401} : GmailResponds(c, st)
    \/ \E c \in CallIds : Settle(c)

RowsSpec == RowsInit /\ [][RowsNext]_vars

(* Callbacks whose grants may lack the mail-send scope; the awaited revoke call *)
(* settles: its fetch ends with a response or rejects, at the latest when the  *)
(* HTTP client gives up waiting                                                *)
RevokeNext ==
    \/ \E f \in FlowIds, state \in Actions : CallbackArrives(f, GeneratedCode(f), state, "")
    \/ \E f \in FlowIds, scope \in Scopes : ExchangeReturns(f, scope)
    \/ \E f \in FlowIds, outcome \in RevokeOutcomes : RevokeSettles(f, outcome)
    \/ \E f \in FlowIds, e \in Emails : UserEmailReturns(f, e, "s1", "n1")

RevokeSpec ==
    /\ Init
    /\ [][RevokeNext]_vars
    /\ \A f \in FlowIds : WF_vars(\E outcome \in RevokeOutcomes : RevokeSettles(f, outcome))

(* Exported calls of sendEmailViaGmail for one account with any sender, and *)
(* every status the mail API answers a send with                            *)
DeliveryNext ==
    \/ CreateAccount("a@x", "rt1", "sk_1", "s1", "n1")
    \/ Tick
    \/ \E c \in CallIds, from \in FromValues : SendEmailViaGmail(c, "a@x", from)
    \/ \E c \in CallIds : RefreshReturns(c, (now + 400) * 1000 + 500, "n1")
    \/ \E c \in CallIds, st \in Statuses : GmailResponds(c, st)
    \/ \E c \in CallIds : Settle(c)

DeliverySpec == Init /\ [][DeliveryNext]_vars

(* Concurrent register callbacks with codes of their own over a table that *)
(* starts empty and from which nothing is deleted                          *)
RaceNext ==
    \/ \E f \in FlowIds, state \in {"register", ""} :
          CallbackArrives(f, GeneratedCode(f), state, "")
    \/ \E f \in FlowIds : ExchangeReturns(f, {GMAIL_SEND_SCOPE, USERINFO_EMAIL_SCOPE})
    \/ \E f \in FlowIds, e \in Emails, s \in Salts : UserEmailReturns(f, e, s, "n1")

RaceSpec == Init /\ [][RaceNext]_vars

(* The authorization routes next to callbacks that echo any state tag, over *)
(* accounts that are registered directly or by a callback                   *)
AuthorizeNext ==
    \/ \E f \in FlowIds : AuthRegister(f)
    \/ \E f \in FlowIds : AuthRegenerate(f)
    \/ \E e \in Emails : CreateAccount(e, "rt1", "sk_2", "s2", "n1")
    \/ \E f \in FlowIds, state \in Actions \cup {"", "REGENERATE"} :
          CallbackArrives(f, GeneratedCode(f), state, "")
    \/ \E f \in FlowIds : ExchangeReturns(f, {GMAIL_SEND_SCOPE, USERINFO_EMAIL_SCOPE})
    \/ \E f \in FlowIds, e \in Emails : UserEmailReturns(f, e, "s1", "n1")

AuthorizeSpec == Init /\ [][AuthorizeNext]_vars

(* Every flow that writes a row: the callbacks (registration, regeneration), *)
(* the store functions called directly, the refresh of an access token, and  *)
(* deletion, while the clock advances                                        *)
FrameNext ==
    \/ \E f \in FlowIds, state \in Actions : CallbackArrives(f, GeneratedCode(f), state, "")
    \/ \E f \in FlowIds : ExchangeReturns(f, {GMAIL_SEND_SCOPE, USERINFO_EMAIL_SCOPE})
    \/ \E f \in FlowIds, e \in Emails : UserEmailReturns(f, e, "s1", "n1")
    \/ \E e \in Emails : UpdateApiKey(e, "sk_2", "s2")
    \/ \E e \in Emails : UpdateRefreshToken(e, "rt2", "n2")
    \/ \E e \in Emails : DeleteAccount(e)
    \/ Tick
    \/ SendEmailViaGmail(1, "a@x", "a@x")
    \/ RefreshReturns(1, (now + 400) * 1000 + 500, "n1")

FrameSpec == Init /\ [][FrameNext]_vars

(* The older registration callback over the older store *)
LegacyRoutesNext ==
    \/ \E f \in FlowIds, code \in Codes : CallbackArrives(f, code, "", "")
    \/ \E f \in FlowIds, scope \in Scopes : ExchangeReturns(f, scope)
    \/ \E f \in FlowIds, outcome \in RevokeOutcomes : RevokeSettles(f, outcome)
    \/ \E f \in FlowIds, e \in Emails : UserEmailReturnsLegacy(f, e)

LegacyRoutesSpec == Init /\ [][LegacyRoutesNext]_vars

-----------------------------------------------------------------------------
(* Properties of the token lifecycle (TokenSpec) *)

(* the row of the one account with this email *)
RowOf(email) ==
    CHOOSE r \in getAccountByEmail(email) : TRUE

HasStoredToken(email) ==
    /\ getAccountByEmail(email) # {}
    /\ RowOf(email).access_token # NULL
    /\ RowOf(email).token_expiry # NULL

SecondsLeft(email) ==
    RowOf(email).token_expiry[1] - now

(* C1: for an account with a stored access token, a call of getValidAccessToken  *)
(* awaits the refresh collaborator when fewer than 300 seconds remain before the *)
(* stored expiry, and when more than 300 seconds remain it returns the decrypted *)
(* stored token, starts no refresh and leaves the account store untouched.       *)
C1_BufferDecidesRefresh ==
    [][\A c \in CallIds, e \in Emails :
          (SendEmailViaGmail(c, e, e) /\ HasStoredToken(e)) =>
              /\ SecondsLeft(e) < 300 =>
                    /\ calls'[c].pc = "refreshing"
                    /\ calls'[c].token = NULL
              /\ SecondsLeft(e) > 300 =>
                    /\ calls'[c].pc = "sending"
                    /\ calls'[c].cached
                    /\ calls'[c].token = decrypt(RowOf(e).access_token)
                    /\ accounts' = accounts
                    /\ minted' = minted]_vars

(* one call was served from the store and a later one is awaiting a refresh of *)
(* a stored token that has 200 seconds left                                    *)
C1_Witness ==
    \E c, d \in CallIds, e \in Emails :
        /\ HasStoredToken(e)
        /\ SecondsLeft(e) = 200
        /\ calls[c].pc = "refreshing" /\ calls[c].email = e
        /\ calls[d].pc = "sending" /\ calls[d].cached /\ calls[d].email = e
        /\ calls[d].token = decrypt(RowOf(e).access_token)

(* the call has been handed an access token by a refresh of its own *)
Refreshed(c) ==
    calls[c].resp # NULL /\ calls[c].token # NULL

(* the row of email holds exactly what the answer resp carried *)
StoredPairIs(table, email, resp) ==
    \E r \in table :
        /\ r.email = email
        /\ isEncrypted(r.access_token)
        /\ decrypt(r.access_token) = <<resp.accessToken>>
        /\ r.token_expiry = <<resp.expiryDate \div 1000>>

GmailErrors ==
    {GmailMessage(st) : st \in Statuses \ {200}}

(* C2: of two calls on one account that overlapped while awaiting a refresh,    *)
(* each is handed the token of its own answer, neither fails except for a       *)
(* missing row or a Gmail status, and when both have been handed their tokens   *)
(* the row holds the token and expiry of the answer that was persisted last.    *)
C2_LastWriterWins ==
    \A c, d \in CallIds :
        (/\ c # d
         /\ calls[c].email = calls[d].email
         /\ calls[d].raced
         /\ calls[c].resp # NULL
         /\ calls[d].resp # NULL) =>
            /\ \A x \in {c, d} :
                  /\ calls[x].token \in {NULL, <<calls[x].resp[1].accessToken>>}
                  /\ calls[x].pc = "failed" =>
                        calls[x].error \in
                            GmailErrors \cup {"Account not found: " \o calls[x].email}
            /\ (Refreshed(c) /\ Refreshed(d) /\ HasStoredToken(calls[c].email)) =>
                  LET last == IF calls[c].resp[1].accessToken > calls[d].resp[1].accessToken
                              THEN c ELSE d
                  IN  StoredPairIs(accounts, calls[c].email, calls[last].resp[1])

(* the call that started first persisted last, and the row holds its answer *)
C2_Witness ==
    \E c, d \in CallIds :
        /\ c # d
        /\ calls[c].email = calls[d].email
        /\ calls[d].raced /\ ~calls[c].raced
        /\ Refreshed(c) /\ Refreshed(d)
        /\ calls[c].resp[1].accessToken > calls[d].resp[1].accessToken
        /\ calls[c].resp[1].expiryDate # calls[d].resp[1].expiryDate
        /\ StoredPairIs(accounts, calls[c].email, calls[c].resp[1])

(* C3: a call that leaves the refresh with a token T leaves it in the step in   *)
(* which the row of its account takes T, encrypted, and the expiry              *)
(* floor(expiryDate / 1000) of the same answer; when the persist finds no row   *)
(* the call fails and holds no token.                                           *)
C3_PersistBeforeReturn ==
    [][\A c \in CallIds :
          (calls[c].pc = "refreshing" /\ calls'[c].pc # "refreshing") =>
              /\ calls'[c].token # NULL =>
                    /\ calls'[c].resp # NULL
                    /\ calls'[c].token = <<calls'[c].resp[1].accessToken>>
                    /\ StoredPairIs(accounts', calls[c].email, calls'[c].resp[1])
                    /\ \A r \in accounts' : r.access_token # calls'[c].token
              /\ (calls'[c].resp # NULL /\ ~accountExists(calls[c].email)) =>
                    /\ calls'[c].pc = "failed"
                    /\ calls'[c].token = NULL
                    /\ accounts' = accounts]_vars

(* one call was handed a token that the row holds, another failed at the persist *)
C3_Witness ==
    \E c, d \in CallIds :
        /\ Refreshed(c) /\ calls[c].pc = "sending"
        /\ StoredPairIs(accounts, calls[c].email, calls[c].resp[1])
        /\ calls[c].resp[1].expiryDate % 1000 # 0
        /\ calls[d].pc = "failed" /\ calls[d].resp # NULL /\ calls[d].token = NULL
        /\ calls[d].error = "Account not found: " \o calls[d].email

RefreshErrors ==
    {"invalid_grant", "Failed to refresh access token"}

(* C4: a call whose refresh ends without an answer fails with the collaborator's *)
(* error, holds no token and sends nothing, whatever token the row still holds.  *)
C4_RefreshFailurePropagates ==
    [][\A c \in CallIds :
          (calls[c].pc = "refreshing" /\ calls'[c].pc # "refreshing" /\ minted' = minted) =>
              /\ calls'[c].pc = "failed"
              /\ calls'[c].error \in RefreshErrors
              /\ calls'[c].token = NULL
              /\ calls'[c].sentFrom = ""]_vars

(* a call failed with the collaborator's error while the row holds a token *)
C4_Witness ==
    \E c \in CallIds :
        /\ calls[c].pc = "failed"
        /\ calls[c].error = "Failed to refresh access token"
        /\ HasStoredToken(calls[c].email)

-----------------------------------------------------------------------------
(* Properties of the accounts table under all its writers (LifecycleSpec) *)

(* C5: every row that holds an access token holds an expiry too, and the two    *)
(* come from one and the same refresh answer: the token is the one some answer  *)
(* carried and the expiry is floor(expiryDate / 1000) of that very answer.      *)
C5_TokenWithItsExpiry ==
    \A r \in accounts :
        r.access_token # NULL =>
            /\ r.token_expiry # NULL
            /\ \E t \in 1..Len(minted) :
                  /\ decrypt(r.access_token) = <<t>>
                  /\ r.token_expiry = <<minted[t] \div 1000>>

(* a row whose key and refresh token were replaced holds the second answer, *)
(* whose expiry differs from the first answer's                             *)
C5_Witness ==
    \E r \in accounts :
        /\ r.access_token # NULL
        /\ decrypt(r.access_token) = <<2>>
        /\ minted[1] # minted[2]
        /\ retired[r.email] # {}
        /\ decrypt(r.refresh_token) = <<"rt2">>

-----------------------------------------------------------------------------
(* Properties of the SMTP listener (SmtpSpec) *)

Given(set) ==
    set \ {""}

(* C6: with non-empty credentials, authentication is rejected as an unregistered *)
(* account whenever no account has the username as its email, whatever the       *)
(* password; as an invalid API key whenever that account exists and the password *)
(* is not its key; and otherwise succeeds with the account's stored email as the *)
(* session identity.                                                             *)
C6_AuthByEmailThenKey ==
    [][\A s \in SessionIds, u \in Given(Usernames), p \in Given(Passwords) :
          SmtpAuth(s, u, p) =>
              IF getAccountByEmail(u) = {}
              THEN sessions'[s].reply = AccountNotRegistered
              ELSE IF \A r \in getAccountByEmail(u) : r.api_key # p
              THEN sessions'[s].reply = InvalidApiKey
              ELSE /\ sessions'[s].reply = "OK"
                   /\ sessions'[s].userEmail = u]_vars

(* the attempt names an email no account has, the attempt names an account and *)
(* a key that is not that account's                                            *)
UnregisteredEmail(u) ==
    getAccountByEmail(u) = {}

WrongKey(u, p) ==
    /\ getAccountByEmail(u) # {}
    /\ \A r \in getAccountByEmail(u) : r.api_key # p

FailedCheck(u, p) ==
    IF getAccountByApiKey(p) # {} THEN "key of another account"
    ELSE IF UnregisteredEmail(u) THEN "email not registered"
    ELSE "key of no account"

C8_RelayedAsSessionIdentity ==
    [][\A c \in CallIds :
          (calls'[c].session # "" /\ calls[c].pc # "sending" /\ calls'[c].pc = "sending") =>
              /\ calls'[c].identity # ""
              /\ calls'[c].sentFrom = calls'[c].identity
              /\ calls'[c].email = calls'[c].identity
              /\ \E r \in accounts' :
                    /\ r.email = calls'[c].identity
                    /\ r.access_token = [plain |-> calls'[c].token[1]]]_vars

(* a message whose From header contains the account's address as a substring was *)
(* sent as the account                                                           *)
C8_Witness ==
    \E c \in CallIds :
        /\ calls[c].session # ""
        /\ calls[c].pc = "sent"
        /\ calls[c].header = "xa@x"
        /\ calls[c].identity = "a@x"
        /\ calls[c].sentFrom = "a@x"

-----------------------------------------------------------------------------
(* Properties of the account store (StoreSpec) *)

(* C9: verifyApiKey(email, candidate) gives the account exactly when an account *)
(* with that email exists and the candidate is the key last set for it; for an  *)
(* email without account and for any other candidate, a key of another account  *)
(* included, it gives the same empty result.                                    *)
C9_VerifyExactlyCurrentKey ==
    \A e \in Usernames, candidate \in Candidates :
        verifyApiKey(e, candidate) =
            IF e \in Emails /\ accountExists(e) /\ candidate = keyOf[e]
            THEN getAccountByEmail(e)
            ELSE {}

(* two accounts with different keys: each key verifies for its own account only, *)
(* and a key of an account verifies for no email without account                 *)
C9_Witness ==
    \E a, b \in Emails :
        /\ accountExists(a) /\ accountExists(b)
        /\ keyOf[a] # keyOf[b]
        /\ verifyApiKey(a, keyOf[a]) = getAccountByEmail(a)
        /\ verifyApiKey(a, keyOf[b]) = {}
        /\ verifyApiKey("A@X", keyOf[a]) = {}

(* C10: for every account, the keys that verify are exactly the one written     *)
(* last; every key an updateApiKey replaced by a different one verifies no more. *)
C10_OnlyNewestKeyVerifies ==
    \A e \in Emails :
        accountExists(e) =>
            /\ {k \in PlainKeys : verifyApiKey(e, k) # {}} = {keyOf[e]}
            /\ \A oldKey \in retired[e] \ {keyOf[e]} : verifyApiKey(e, oldKey) = {}

(* an account whose key was replaced, and replaced back: one key verifies *)
C10_Witness ==
    \E e \in Emails :
        /\ accountExists(e)
        /\ retired[e] = PlainKeys
        /\ verifyApiKey(e, keyOf[e]) = getAccountByEmail(e)
        /\ \E oldKey \in retired[e] : verifyApiKey(e, oldKey) = {}

-----------------------------------------------------------------------------
(* Registration and key regeneration *)

(* the response a finished callback sent *)
Sent(f) == flows[f].response[1]

Finished(f) == flows[f].pc = "done"

(* C11: when a register callback whose grant includes the mail-send scope       *)
(* learns its email, then if the email has no account the step adds exactly one *)
(* account for it and answers Registration Successful with a fresh 'sk_' key    *)
(* that verifies for the email; if the email has an account the step answers    *)
(* Already Registered, generates no key and leaves the accounts as they are.    *)
C11_RegisterOnce ==
    [][\A f \in FlowIds, e \in Emails, s \in Salts :
          (UserEmailReturns(f, e, s, "n1") /\ flows[f].state # "regenerate") =>
              LET r == flows'[f].response[1]
              IN  IF getAccountByEmail(e) = {}
                  THEN /\ r.page = "Registration Successful" /\ r.status = 200
                       /\ r.key = GeneratedKey(nkeys + 1) /\ nkeys' = nkeys + 1
                       /\ \E row \in accounts' : /\ accounts' = accounts \cup {row}
                                                 /\ row \notin accounts
                                                 /\ row.email = e
                       /\ \E k \in PlainKeys : /\ k = r.key
                                                /\ verifyApiKey(e, k)' = getAccountByEmail(e)'
                       /\ Cardinality(getAccountByEmail(e)') = 1
                  ELSE /\ r.page = "Already Registered" /\ r.status = 200
                       /\ r.key = ""
                       /\ nkeys' = nkeys
                       /\ accounts' = accounts]_vars

(* a registration followed by a second register callback for the same email *)
C11_Witness ==
    \E f, g \in FlowIds, e \in Emails :
        /\ Finished(f) /\ Sent(f).page = "Registration Successful" /\ Sent(f).email = e
        /\ Finished(g) /\ Sent(g).page = "Already Registered" /\ Sent(g).email = e
        /\ verifyApiKey(e, Sent(f).key) = getAccountByEmail(e)
        /\ accountExists(e)
        /\ nkeys = 1


(* C12: an Already Registered response contains the account's API key in no     *)
(* form: neither a plaintext key nor the value of the api_key column of any row. *)
C12_AlreadyRegisteredHidesKey ==
    \A f \in FlowIds :
        (Finished(f) /\ Sent(f).page = "Already Registered") =>
            /\ Sent(f).key = ""
            /\ \A row \in accounts : Sent(f).key # row.api_key


(* the keys the callbacks generated so far *)
GeneratedKeys == {GeneratedKey(i) : i \in 1..nkeys}

(* the finished callbacks whose response shows key *)
ShownBy(key) == {f \in FlowIds : Finished(f) /\ Sent(f).key = key}

(* C13: every generated key is shown by exactly one response, a Registration    *)
(* Successful or API Key Regenerated page; a response shows nothing in its key  *)
(* place but a generated key; the api_key column of every row is a hash, never  *)
(* a plaintext key.                                                             *)
C13_KeyShownOnce ==
    /\ \A key \in GeneratedKeys :
          /\ Cardinality(ShownBy(key)) = 1
          /\ \A f \in ShownBy(key) :
                Sent(f).page \in {"Registration Successful", "API Key Regenerated"}
    /\ \A f \in FlowIds :
          (Finished(f) /\ Sent(f).key # "") => Sent(f).key \in GeneratedKeys
    /\ \A row \in accounts :
          /\ startsWithDollar2(row.api_key)
          /\ row.api_key \notin PlainKeys \cup GeneratedKeys

(* two keys generated for one account, each shown by its own callback and by *)
(* no other; the row holds a hash                                            *)
C13_Witness ==
    \E f, g \in FlowIds, e \in Emails :
        /\ Finished(f) /\ Sent(f).page = "Registration Successful" /\ Sent(f).email = e
        /\ Finished(g) /\ Sent(g).page = "API Key Regenerated" /\ Sent(g).email = e
        /\ Sent(f).key # Sent(g).key
        /\ GeneratedKeys = {Sent(f).key, Sent(g).key}
        /\ \E row \in getAccountByEmail(e) : row.api_key \in Hashes


(* the grant the callback obtained lacks the mail-send scope *)
MissingScope(flow) ==
    /\ flow.tokens # NULL
    /\ ~(GMAIL_SEND_SCOPE \in flow.tokens[1].scope)

(* C14: every step of a callback whose grant lacks the mail-send scope, for      *)
(* register and regenerate alike, leaves the accounts and the generated keys as *)
(* they are; the revocation of the grant's access token has been requested; the *)
(* callback goes nowhere but to the 400 Missing Permission page.                *)
C14_MissingScopeRejected ==
    [][\A f \in FlowIds :
          (MissingScope(flows'[f]) /\ flows'[f] # flows[f]) =>
              /\ accounts' = accounts
              /\ nkeys' = nkeys
              /\ flows'[f].tokens[1].accessToken \in revoked'
              /\ flows'[f].pc \in {"revoking", "done"}
              /\ flows'[f].pc = "done" =>
                    /\ flows'[f].response[1].page = "Missing Permission"
                    /\ flows'[f].response[1].status = 400
                    /\ flows'[f].response[1].key = ""]_vars

(* a regenerate callback rejected for the missing scope while an account exists, *)
(* and a grant with the scope that was not revoked                               *)
C14_Witness ==
    \E f, g \in FlowIds :
        /\ Finished(f) /\ MissingScope(flows[f]) /\ flows[f].state = "regenerate"
        /\ Sent(f).page = "Missing Permission"
        /\ flows[f].tokens[1].accessToken \in revoked
        /\ Finished(g) /\ Sent(g).page = "Registration Successful"
        /\ flows[g].tokens[1].accessToken \notin revoked
        /\ accounts # {}


(* C15: when a regenerate callback learns an email that has an account, the step *)
(* answers API Key Regenerated with a fresh key; after the step that key         *)
(* verifies for the email and the key that verified before it does not; no      *)
(* account is added or removed.                                                  *)
C15_RegenerateReplacesKey ==
    [][\A f \in FlowIds, e \in Emails, s \in Salts :
          (UserEmailReturns(f, e, s, "n1") /\ flows[f].state = "regenerate"
             /\ getAccountByEmail(e) # {}) =>
              LET r == flows'[f].response[1]
              IN  /\ r.page = "API Key Regenerated" /\ r.status = 200 /\ r.email = e
                  /\ r.key = GeneratedKey(nkeys + 1)
                  /\ \E newKey, oldKey \in PlainKeys :
                        /\ newKey = r.key
                        /\ verifyApiKey(e, oldKey) # {}
                        /\ newKey # oldKey
                        /\ verifyApiKey(e, newKey)' = getAccountByEmail(e)'
                        /\ verifyApiKey(e, oldKey)' = {}
                  /\ {row.id : row \in accounts'} = {row.id : row \in accounts}
                  /\ Cardinality(accounts') = Cardinality(accounts)]_vars

(* a registered account whose key was regenerated: the shown key verifies, the *)
(* key of the registration does not                                            *)
C15_Witness ==
    \E f, g \in FlowIds, e \in Emails :
        /\ Finished(f) /\ Sent(f).page = "Registration Successful" /\ Sent(f).email = e
        /\ Finished(g) /\ Sent(g).page = "API Key Regenerated" /\ Sent(g).email = e
        /\ flows[g].state = "regenerate"
        /\ verifyApiKey(e, Sent(g).key) = getAccountByEmail(e)
        /\ verifyApiKey(e, Sent(f).key) = {}
        /\ accountExists(e)


(* C16: when a regenerate callback learns an email that has no account, the step *)
(* answers the 400 Account Not Found page, shows and generates no key, and      *)
(* leaves the accounts as they are: no account is created.                      *)
C16_RegenerateNeedsAccount ==
    [][\A f \in FlowIds, e \in Emails, s \in Salts :
          (UserEmailReturns(f, e, s, "n1") /\ flows[f].state = "regenerate"
             /\ getAccountByEmail(e) = {}) =>
              LET r == flows'[f].response[1]
              IN  /\ r.page = "Account Not Found" /\ r.status = 400
                  /\ r.key = ""
                  /\ nkeys' = nkeys
                  /\ accounts' = accounts
                  /\ getAccountByEmail(e)' = {}]_vars

(* a regenerate callback for an email without account, next to another account *)
C16_Witness ==
    \E f \in FlowIds, e \in Emails :
        /\ Finished(f) /\ flows[f].state = "regenerate"
        /\ Sent(f).page = "Account Not Found" /\ Sent(f).email = e
        /\ ~accountExists(e)
        /\ accounts # {}


(* C17: when the exchange of a callback fails on a code that was redeemed       *)
(* before, the callback ends in the Page Expired page with status 400, not in   *)
(* the Registration Failed page with status 500, and the step leaves the        *)
(* accounts and the generated keys as they are.                                 *)
C17_ReusedCodeIsPageExpired ==
    [][\A f \in FlowIds :
          (flows[f].pc = "exchanging" /\ flows[f].code \in redeemed
             /\ flows'[f] # flows[f]) =>
              /\ flows'[f].pc = "done"
              /\ flows'[f].response[1].page = "Page Expired"
              /\ flows'[f].response[1].status = 400
              /\ flows'[f].response[1] # catchBlock(flows[f], "Something unexpected happened").response[1]
              /\ flows'[f].response[1].key = ""
              /\ accounts' = accounts
              /\ nkeys' = nkeys]_vars

(* one code presented twice: the first callback registered the account, the  *)
(* second ended in Page Expired; a failure of another kind ends in status 500 *)
C17_Witness ==
    \E f, g \in FlowIds :
        /\ f # g
        /\ flows[f].code = flows[g].code
        /\ Finished(f) /\ Sent(f).page = "Registration Successful"
        /\ Finished(g) /\ Sent(g).page = "Page Expired" /\ Sent(g).status = 400
        /\ flows[g].tokens = NULL
        /\ Cardinality(accounts) = 1
        /\ catchBlock(flows[g], "Something unexpected happened").response[1].status = 500


-----------------------------------------------------------------------------
(* Account store invariants *)

(* C18: no two accounts have the same email and no two accounts have the same *)
(* api_key hash, whatever createAccount, updateApiKey, deleteAccount and the  *)
(* registration and regeneration callbacks did.                               *)
C18_EmailAndHashUnique ==
    \A r1, r2 \in accounts :
        r1 # r2 => /\ r1.email # r2.email
                   /\ r1.api_key # r2.api_key
                   /\ r1.id # r2.id

(* two accounts with the same plaintext key under different hashes, one of them *)
(* registered by a callback, after a createAccount for a taken email was refused *)
C18_Witness ==
    \E a, b \in Emails, f \in FlowIds :
        /\ a # b /\ accountExists(a) /\ accountExists(b)
        /\ keyOf[a] = keyOf[b]
        /\ Finished(f) /\ Sent(f).page = "Registration Successful" /\ Sent(f).email = a
        /\ Cardinality(accounts) = 2
        /\ Cardinality({r.api_key : r \in accounts}) = 2


(* every refresh token the program has held: written to the store or obtained *)
(* by a callback                                                              *)
SecretTokens ==
    {written[e][1] : e \in {x \in Emails : written[x] # NULL}}
        \cup {flows[f].tokens[1].refreshToken : f \in {g \in FlowIds : flows[g].tokens # NULL}}

(* the text values of a callback response *)
ResponseTexts(response) ==
    {response.page, response.email, response.key, response.detail}

DuplicateRefused(email, refreshToken, apiKey, s, n) ==
    /\ ~InsertAllowed(email, bcryptHash(apiKey, s))
    /\ LET result == createAccount(email, refreshToken, apiKey, s, n)
       IN  result = accounts /\ Cardinality(result) = Cardinality(accounts)

(* C20 as stated: createAccount for an email that has an account is refused and *)
(* changes nothing, the key of the account verifies, and the key passed to the  *)
(* refused call does not verify.                                                *)
C20_PassedKeyNeverVerifies ==
    \A e \in Emails :
        accountExists(e) =>
            /\ verifyApiKey(e, keyOf[e]) = getAccountByEmail(e)
            /\ \A k \in PlainKeys :
                  /\ \A rt \in RefreshTokens, s \in Salts, n \in Nonces :
                        DuplicateRefused(e, rt, k, s, n)
                  /\ verifyApiKey(e, k) = {}

(* C20: createAccount for an email that has an account is refused and leaves    *)
(* the account, its key hash, tokens and timestamps and the number of accounts  *)
(* unchanged; the key of the account still verifies, and the key passed to the  *)
(* refused call verifies exactly when it is that key.                           *)
C20_DuplicateEmailRefused ==
    \A e \in Emails :
        accountExists(e) =>
            /\ verifyApiKey(e, keyOf[e]) = getAccountByEmail(e)
            /\ \A k \in PlainKeys :
                  /\ \A rt \in RefreshTokens, s \in Salts, n \in Nonces :
                        DuplicateRefused(e, rt, k, s, n)
                  /\ (verifyApiKey(e, k) # {}) <=> (k = keyOf[e])

(* an account created at an earlier time, with its key replaced since: a        *)
(* createAccount for its email with another key and token is refused, and one  *)
(* with the account's own key is refused as well                                *)
C20_Witness ==
    \E e \in Emails, k \in PlainKeys :
        /\ accountExists(e)
        /\ k # keyOf[e]
        /\ \E r \in getAccountByEmail(e) : r.created_at < now /\ r.created_at < r.updated_at
        /\ DuplicateRefused(e, "rt2", k, "s2", "n2")
        /\ DuplicateRefused(e, "rt2", keyOf[e], "s2", "n2")
        /\ verifyApiKey(e, k) = {}
        /\ verifyApiKey(e, keyOf[e]) # {}
        /\ Cardinality(accounts) = 2


(* the update functions called for email: each finds no row to change, which is *)
(* their 'Account not found' error, and each returns the table as it is         *)
UpdatesRefused(email) ==
    /\ updateChanges(email) = 0
    /\ \A n \in Nonces :
          /\ \A accessToken \in 1..MaxIssued, tokenExpiry \in {0, now + 400} :
                updateAccessToken(email, accessToken, tokenExpiry, n) = accounts
          /\ \A rt \in RefreshTokens : updateRefreshToken(email, rt, n) = accounts
    /\ \A k \in PlainKeys, s \in Salts : updateApiKey(email, k, s) = accounts

(* C21: updateAccessToken, updateRefreshToken and updateApiKey called with an   *)
(* email that matches no account each fail with 'Account not found' and leave   *)
(* the table unchanged: no row is created and no existing row is modified.      *)
C21_UpdateOfMissingAccountRefused ==
    \A e \in Usernames :
        getAccountByEmail(e) = {} => UpdatesRefused(e)

(* one account that holds an access token and was written at an earlier time;  *)
(* updates for the other email and for its own email in upper case are refused *)
C21_Witness ==
    \E a, b \in Emails :
        /\ a # b /\ ~accountExists(b)
        /\ \E r \in getAccountByEmail(a) : r.access_token # NULL /\ r.updated_at < now
        /\ UpdatesRefused(b)
        /\ UpdatesRefused("A@X")
        /\ updateChanges(a) = 1
        /\ updateRefreshToken(a, "rt2", "n2") # accounts


-----------------------------------------------------------------------------
(* The envelope of crypto.ts *)

(* decrypt was called on an envelope just as encrypt returned it *)
DecryptedUnaltered ==
    crypto.call = "decrypt" /\ crypto.altered = ""

DecryptedAltered ==
    crypto.call = "decrypt" /\ crypto.altered \in {"tag", "ciphertext", "format"}

(* C23: decrypt fails with an error for every envelope obtained from a valid  *)
(* one by altering its ciphertext segment or its auth-tag segment, and for    *)
(* every input that does not split into exactly three colon-separated         *)
(* segments; for such input it never returns a plaintext.                     *)
C23_AlteredEnvelopeFails ==
    DecryptedAltered => crypto.output[1].error # ""


(* getDecryptedRefreshToken or getDecryptedAccessToken was called on a row *)
(* whose token column holds a string that decrypt refuses                  *)
ReadUndecryptable ==
    /\ crypto.call \in {"getDecryptedRefreshToken", "getDecryptedAccessToken"}
    /\ decryptText(crypto.input).error # ""

(* C24: getDecryptedRefreshToken and getDecryptedAccessToken never return a  *)
(* stored value as-is when that value does not decrypt: for a stored token   *)
(* that is tampered, truncated or otherwise not a valid envelope under the   *)
(* configured key they fail with an error.                                   *)
C24_UndecryptableTokenFails ==
    ReadUndecryptable => crypto.output[1].error # ""


(* str consists of lower-case hex digits *)
IsHex(str) ==
    \A i \in 1..Len(str) : str[i] \in 0..15

(* three colon-separated hex segments, a nonce of 96 bits and a tag of 128 bits *)
WellFormedEnvelope(envelope) ==
    LET parts == split(envelope)
    IN  /\ Len(parts) = 3
        /\ \A seg \in 1..3 : IsHex(parts[seg])
        /\ Len(parts[1]) * 4 = 96
        /\ Len(parts[2]) * 4 = 128

(* C25: two calls of encrypt on the same plaintext s return different         *)
(* envelopes, each made with a freshly generated nonce, and both envelopes    *)
(* decrypt to s; every envelope returned by encrypt has exactly three         *)
(* colon-separated hex segments with a 96-bit nonce and a 128-bit auth tag.   *)
C25_FreshEnvelopes ==
    crypto.call = "" =>
        \A j, k \in 1..Len(crypto.envelopes) :
            /\ j # k => crypto.envelopes[j] # crypto.envelopes[k]
            /\ WellFormedEnvelope(crypto.envelopes[k])
            /\ decryptText(crypto.envelopes[k])
                  = [error |-> "", plaintext |-> crypto.plaintext]

(* encrypt was called twice on a plaintext of MaxLen characters: two envelopes *)
(* with different nonces, the second of which decrypts to the plaintext       *)
C25_Witness ==
    /\ Len(crypto.envelopes) = 2
    /\ Len(crypto.plaintext) = MaxLen
    /\ crypto.call = ""
    /\ crypto.envelopes[2] # crypto.envelopes[1]
    /\ split(crypto.envelopes[1])[1] # split(crypto.envelopes[2])[1]
    /\ decryptText(crypto.envelopes[2]).plaintext = crypto.plaintext


-----------------------------------------------------------------------------
(* The edge of the expiry buffer and the rows without a usable token (TokenSpec) *)

(* getValidAccessToken is called for an account whose stored token has exactly *)
(* bufferSeconds left                                                          *)
CalledAtBuffer(c, e) ==
    /\ SendEmailViaGmail(c, e, e)
    /\ HasStoredToken(e)
    /\ now = RowOf(e).token_expiry[1] - BufferSeconds

(* C26 as stated: when exactly bufferSeconds (300) remain before tokenExpiry,    *)
(* now = tokenExpiry - 300, getValidAccessToken returns the decrypted cached     *)
(* token and makes no refresh call.                                              *)
C26_AtBufferReturnsCached ==
    [][\A c \in CallIds, e \in Emails :
          CalledAtBuffer(c, e) =>
              /\ calls'[c].pc = "sending"
              /\ calls'[c].cached
              /\ calls'[c].token = decrypt(RowOf(e).access_token)]_vars

(* C26, amended: when exactly bufferSeconds (300) remain before tokenExpiry,     *)
(* now = tokenExpiry - 300, isTokenExpired is true (now >= expiry - 300), so     *)
(* getValidAccessToken does not return the cached token: it awaits the refresh   *)
(* collaborator, holding no token and leaving the store as it is meanwhile.      *)
C26_AtBufferRefreshes ==
    [][\A c \in CallIds, e \in Emails :
          CalledAtBuffer(c, e) =>
              /\ calls'[c].pc = "refreshing"
              /\ ~calls'[c].cached
              /\ calls'[c].token = NULL
              /\ accounts' = accounts]_vars

(* a call that began after an earlier call's refresh had stored a token is at *)
(* the refresh while that token has exactly 300 seconds left                  *)
C26_Witness ==
    \E c, d \in CallIds, e \in Emails :
        /\ d < c
        /\ HasStoredToken(e)
        /\ SecondsLeft(e) = BufferSeconds
        /\ Refreshed(d) /\ calls[d].email = e /\ ~calls[d].raced
        /\ RowOf(e).token_expiry = <<calls[d].resp[1].expiryDate \div 1000>>
        /\ calls[c].pc = "refreshing" /\ calls[c].email = e /\ ~calls[c].raced


(* getValidAccessToken is called for an account whose row holds no access *)
(* token, or holds one without an expiry                                  *)
CalledWithoutUsableToken(c, e) ==
    /\ SendEmailViaGmail(c, e, e)
    /\ accountExists(e)
    /\ RowOf(e).access_token = NULL \/ RowOf(e).token_expiry = NULL

(* C27: an account with a stored access token but a null tokenExpiry, or with *)
(* no access token at all, always takes the refresh path: getValidAccessToken *)
(* never returns a cached token for it, whatever the current time.            *)
C27_NoExpiryOrNoTokenRefreshes ==
    [][\A c \in CallIds, e \in Emails :
          CalledWithoutUsableToken(c, e) =>
              /\ calls'[c].pc = "refreshing"
              /\ ~calls'[c].cached
              /\ calls'[c].token = NULL]_vars

(* after the clock advanced, a call for a row that holds a token and no expiry *)
(* is awaiting the refresh, no other call having been made                     *)
C27_Witness ==
    \E c \in CallIds, e \in Emails :
        /\ now > 0
        /\ accountExists(e)
        /\ RowOf(e).access_token # NULL /\ RowOf(e).token_expiry = NULL
        /\ calls[c].pc = "refreshing" /\ calls[c].email = e
        /\ \A d \in CallIds \ {c} : calls[d].pc = "idle"


(* the refresh awaited by call c ends without an answer *)
RefreshFailed(c) ==
    /\ calls[c].pc = "refreshing"
    /\ calls'[c].pc = "failed"
    /\ calls'[c].resp = NULL

(* C28 as stated: after a failed refresh the account's stored accessToken is  *)
(* absent (null): a cached token that was found expired and could not be      *)
(* refreshed does not remain in the account store.                            *)
C28_FailedRefreshClearsToken ==
    [][\A c \in CallIds :
          RefreshFailed(c) =>
              \A r \in accounts' : r.email = calls[c].email => r.access_token = NULL]_vars

(* C28, amended: a failed refresh writes nothing to the account store: the    *)
(* account's row is after it what it was before, so a cached token that was   *)
(* found expired and could not be refreshed remains stored with its expiry,   *)
(* and accessToken is absent afterwards only if it was absent before.         *)
C28_FailedRefreshKeepsRow ==
    [][\A c \in CallIds :
          RefreshFailed(c) => accounts' = accounts]_vars

(* a call failed at the refresh of a token inside the expiry buffer, and the *)
(* row still holds that token                                                *)
C28_Witness ==
    \E c \in CallIds :
        /\ calls[c].pc = "failed"
        /\ calls[c].error = "invalid_grant"
        /\ ~calls[c].raced
        /\ \A d \in CallIds \ {c} : calls[d].pc = "idle"
        /\ HasStoredToken(calls[c].email)
        /\ SecondsLeft(calls[c].email) <= BufferSeconds
        /\ isEncrypted(RowOf(calls[c].email).access_token)


-----------------------------------------------------------------------------
(* The revoke call of the missing-scope branch (RevokeSpec) *)

(* the callback answered with the 400 Missing Permission page *)
RejectedMissingScope(flow) ==
    /\ flow.pc = "done"
    /\ flow.response = Response(400, "Missing Permission", "", "", "")

RevokeSettledAsRejected ==
    \A f \in FlowIds, outcome \in RevokeOutcomes :
        RevokeSettles(f, outcome) =>
            /\ RejectedMissingScope(flows'[f])
            /\ \A g \in FlowIds \ {f} : flows'[g] = flows[g]
            /\ accounts' = accounts /\ nkeys' = nkeys /\ redeemed' = redeemed

(* a register callback that learns an email without an account registers it, *)
(* also after another callback was rejected for the missing scope            *)
RetryRegisters ==
    \A g \in FlowIds, e \in Emails :
        (/\ UserEmailReturns(g, e, "s1", "n1")
         /\ flows[g].state # "regenerate"
         /\ getAccountByEmail(e) = {}
         /\ \E f \in FlowIds : RejectedMissingScope(flows[f])) =>
            /\ flows'[g].response[1].page = "Registration Successful"
            /\ Cardinality(getAccountByEmail(e)') = 1

-----------------------------------------------------------------------------
(* The parameters of the callback (RoutesSpec) *)

(* the step touches neither the accounts, the keys nor the codes *)
StoreAndCodesUntouched ==
    /\ accounts' = accounts /\ nextId' = nextId /\ nkeys' = nkeys
    /\ redeemed' = redeemed /\ revoked' = revoked

(* the callback of flow f arrives: with an error parameter it is answered at  *)
(* once, cancelled; with neither error nor code it is answered at once; else  *)
(* it goes to the exchange of its code                                        *)
AnsweredByParameters ==
    \A f \in FlowIds :
      (flows[f].pc = "idle" /\ flows'[f].pc # "idle") =>
        \A code \in Codes \cup {""}, state \in Actions \cup {""},
           error \in {"", "access_denied"} :
          CallbackArrives(f, code, state, error) =>
                /\ error # "" =>
                      /\ flows'[f].pc = "done"
                      /\ flows'[f].response =
                            Response(400, "Authorization Cancelled", "", "", error)
                      /\ flows'[f].tokens = NULL
                      /\ StoreAndCodesUntouched
                /\ (error = "" /\ code = "") =>
                      /\ flows'[f].pc = "done"
                      /\ flows'[f].response = Response(400, "No authorization code", "", "", "")
                      /\ flows'[f].tokens = NULL
                      /\ StoreAndCodesUntouched
                /\ (error = "" /\ code # "") =>
                      /\ flows'[f].pc = "exchanging"
                      /\ flows'[f].code = code

(* a callback is at the exchange only as it arrives, and once it has left the *)
(* exchange it does not come back to it                                       *)
ExchangedAtMostOnce ==
    \A f \in FlowIds :
        /\ (flows'[f].pc = "exchanging" /\ flows[f].pc # "exchanging") => flows[f].pc = "idle"
        /\ flows[f].tokens # NULL => flows'[f].tokens = flows[f].tokens
        /\ (flows[f].pc = "done" /\ flows[f].tokens = NULL) => flows'[f] = flows[f]

(* C30: a callback carrying an error parameter ends in Cancelled (status 400)  *)
(* without exchanging any code and without writing the account store, even    *)
(* when a code parameter is also present; a callback with neither error nor    *)
(* code is rejected (status 400) without any exchange; in every other callback *)
(* the code is exchanged at most once.                                         *)
C30_ErrorBeforeCodeOneExchange ==
    [][AnsweredByParameters /\ ExchangedAtMostOnce]_vars

(* one callback cancelled although it carried a code, which nobody redeemed, *)
(* and one rejected for carrying neither error nor code                      *)
C30_Witness ==
    \E f, g \in FlowIds :
        /\ Finished(f) /\ Sent(f).page = "Authorization Cancelled" /\ Sent(f).status = 400
        /\ flows[f].code # "" /\ flows[f].code \notin redeemed
        /\ flows[f].tokens = NULL
        /\ Finished(g) /\ Sent(g).page = "No authorization code" /\ Sent(g).status = 400
        /\ accounts = {} /\ redeemed = {}


(* ---------------------------------------------------------------------- *)
(* Frame of the account-store mutations                                    *)
(* ---------------------------------------------------------------------- *)

(* the step is a call of updateApiKey: made directly, or by a callback of *)
(* the regenerate flow                                                     *)
ByUpdateApiKey ==
    /\ calls' = calls
    /\ \/ flows' = flows
       \/ \E f \in FlowIds : /\ flows[f].pc = "resolving"
                             /\ flows[f].state = "regenerate"
                             /\ flows'[f] # flows[f]

(* C31: a row that exists before and after a step keeps its id, email and  *)
(* created_at; a step changes at most one of its column groups: api_key,   *)
(* refresh_token, or access_token with token_expiry. The api_key changes   *)
(* only in a call of updateApiKey (direct or through the regenerate flow), *)
(* never in a refresh or in a register callback, and that step leaves      *)
(* refresh_token, access_token and token_expiry as they were.              *)
C31_MutationsKeepOtherColumns ==
    [][\A r \in accounts : \A q \in accounts' : q.id = r.id =>
          /\ q.email = r.email
          /\ q.created_at = r.created_at
          /\ q.api_key # r.api_key =>
                /\ ByUpdateApiKey
                /\ q.refresh_token = r.refresh_token
                /\ q.access_token = r.access_token
                /\ q.token_expiry = r.token_expiry
          /\ q.refresh_token # r.refresh_token =>
                /\ calls' = calls /\ flows' = flows
                /\ q.access_token = r.access_token
                /\ q.token_expiry = r.token_expiry
          /\ (q.access_token # r.access_token \/ q.token_expiry # r.token_expiry) =>
                /\ flows' = flows
                /\ q.refresh_token = r.refresh_token]_vars

(* an account whose key was regenerated by a callback after its access  *)
(* token was stored, and which still holds the token and its expiry     *)
C31_Witness ==
    \E f \in FlowIds : \E r \in accounts :
        /\ flows[f].response # NULL
        /\ flows[f].response[1].page = "API Key Regenerated"
        /\ flows[f].response[1].email = r.email
        /\ flows[f].response[1].key = keyOf[r.email]
        /\ r.access_token # NULL
        /\ r.token_expiry # NULL
        /\ r.updated_at > r.token_expiry[1] - 400
        /\ written[r.email] # <<"rt2">>


(* ---------------------------------------------------------------------- *)
(* Deletion of an account                                                  *)
(* ---------------------------------------------------------------------- *)

(* C32: deleteAccount of an email without an account returns false and      *)
(* leaves the table as it is; a step that deletes the account of an email  *)
(* removes exactly that row (the call returns true, every other row stays  *)
(* as it was), after it verifyApiKey of the email finds nothing for any    *)
(* key, and createAccount of the email inserts a row again.                *)
C32_DeleteRemovesExactlyTheRow ==
    /\ [](\A e \in Emails : ~accountExists(e) =>
              /\ deleteAccount(e) = accounts
              /\ ~deleteAccountReturns(e))
    /\ [][\A r \in accounts : (\A q \in accounts' : q.id # r.id) =>
              /\ deleteAccountReturns(r.email)
              /\ accounts' = accounts \ {r}
              /\ \A k \in PlainKeys : verifyApiKey(r.email, k)' = {}
              /\ \A k \in PlainKeys, s \in Salts :
                    (\A q \in accounts' : q.api_key # bcryptHash(k, s)) =>
                        \E q \in createAccount(r.email, "rt1", k, s, "n1")' :
                            /\ q \notin accounts'
                            /\ q.email = r.email]_vars

(* an email registered by a callback whose account was deleted afterwards *)
(* while the account of another email stayed in the table                 *)
C32_Witness ==
    \E f \in FlowIds : \E o \in accounts :
        /\ flows[f].response # NULL
        /\ flows[f].response[1].page = "Registration Successful"
        /\ flows[f].response[1].email # o.email
        /\ ~accountExists(flows[f].response[1].email)

(* ---------------------------------------------------------------------- *)
(* Relay only after authentication                                         *)
(* ---------------------------------------------------------------------- *)

Rejections == {MissingCredentials, AccountNotRegistered, InvalidApiKey, EmailMismatch}

(* C33: a relay call starts for a session only when an authentication on    *)
(* that session has succeeded (its reply is OK and its identity attached);  *)
(* an authentication answered with a rejection leaves the session without  *)
(* identity and key, and one with an empty credential queries no account;  *)
(* DATA on a session without identity is answered as not authenticated and *)
(* starts no delivery or refresh call.                                      *)
C33_RelayOnlyAfterAuth ==
    [][\A s \in SessionIds :
          /\ \A c \in CallIds :
                (calls[c].pc = "idle" /\ calls'[c].pc # "idle" /\ calls'[c].session = s) =>
                    /\ sessions[s].reply = "OK"
                    /\ sessions[s].userEmail # ""
                    /\ calls'[c].identity = sessions[s].userEmail
          /\ (sessions'[s].reply \in Rejections /\ sessions'[s].reply # sessions[s].reply) =>
                /\ sessions'[s].userEmail = ""
                /\ sessions'[s].apiKey = ""
                /\ calls' = calls
          /\ (sessions'[s].reply = MissingCredentials) => sessions'[s].lookups = <<>>
          /\ \A u \in Usernames, p \in Passwords :
                (SmtpAuth(s, u, p) /\ (u = "" \/ p = "")) =>
                    /\ sessions'[s].reply = MissingCredentials
                    /\ sessions'[s].lookups = <<>>
          /\ (sessions[s].userEmail = "" /\ sessions'[s].dataReply # sessions[s].dataReply
                /\ sessions'[s] # NewSession) =>
                /\ sessions'[s].dataReply = NotAuthenticated
                /\ calls' = calls
                /\ accounts' = accounts]_vars

(* accounts exist; a session whose authentication was rejected for an   *)
(* empty credential and whose DATA was refused, no call having started   *)
C33_Witness ==
    \E s \in SessionIds :
        /\ sessions[s].reply = MissingCredentials
        /\ sessions[s].userEmail = ""
        /\ sessions[s].dataReply = NotAuthenticated
        /\ accounts # {}
        /\ \A c \in CallIds : calls[c].pc = "idle"


(* ---------------------------------------------------------------------- *)
(* The sender of a delivered message                                       *)
(* ---------------------------------------------------------------------- *)

(* C34: whenever the from address of the message is not the email of the  *)
(* account the call resolved, the From header of the raw message posted   *)
(* to the mail API is the account's email.                                 *)
C34_SenderOverridden ==
    \A c \in CallIds :
        (calls[c].pc = "sending" /\ calls[c].from # calls[c].email) =>
            calls[c].sentFrom = calls[c].email


(* ---------------------------------------------------------------------- *)
(* Concurrent registrations of one email                                   *)
(* ---------------------------------------------------------------------- *)

(* the flows whose response is the page for the email *)
Answered(page, email) ==
    {f \in FlowIds : /\ flows[f].response # NULL
                     /\ flows[f].response[1].page = page
                     /\ flows[f].response[1].email = email}

(* C35: of the register callbacks with codes of their own that resolve to   *)
(* one email, in whatever order their steps interleave, the one that       *)
(* reaches the lookup first answers Registration Successful with a new     *)
(* key and inserts the row, every later one answers Already Registered     *)
(* without a key and leaves the table alone; no email is registered twice, *)
(* and no callback ends in an internal failure.                            *)
C35_OneRegistrationPerEmail ==
    /\ [](/\ \A e \in Emails : Cardinality(Answered("Registration Successful", e)) <= 1
          /\ \A f \in FlowIds : flows[f].response # NULL =>
                flows[f].response[1].page # "Registration Failed")
    /\ [][\A f \in FlowIds : (flows[f].pc = "resolving" /\ flows'[f].pc = "done") =>
             \A e \in Emails :
                (\E s \in Salts : UserEmailReturns(f, e, s, "n1")) =>
                    IF Answered("Registration Successful", e) # {}
                    THEN /\ flows'[f].response[1].page = "Already Registered"
                         /\ flows'[f].response[1].key = ""
                         /\ accounts' = accounts
                         /\ nkeys' = nkeys
                    ELSE /\ flows'[f].response[1].page = "Registration Successful"
                         /\ flows'[f].response[1].email = e
                         /\ flows'[f].response[1].key \notin GeneratedKeys
                         /\ Cardinality({r \in accounts' : r.email = e}) = 1]_vars

(* the callback that arrived second registered the email while the first *)
(* was still in flight, and the first was then told it is registered     *)
C35_Witness ==
    \E e \in Emails :
        /\ Answered("Registration Successful", e) # {}
        /\ Answered("Already Registered", e) # {}
        /\ redeemed = {"C1", "C2"}
        /\ 2 \in Answered("Registration Successful", e)


(* ---------------------------------------------------------------------- *)
(* Deletion of the account during a refresh                                *)
(* ---------------------------------------------------------------------- *)

(* the row the call read before its refresh is no longer in the table *)
DeletedInFlight(c) ==
    calls[c].pc = "refreshing" /\ \A r \in accounts : <<r.id>> # calls[c].account

(* C36 as stated: when the refresh of a call returns after the account the *)
(* call read was deleted, the call fails at the persist step and hands no  *)
(* token to delivery.                                                      *)
C36_DeletedInFlightNeverDelivers ==
    [][\A c \in CallIds :
          (DeletedInFlight(c) /\ calls'[c].resp # NULL) =>
              /\ calls'[c].pc = "failed"
              /\ calls'[c].token = NULL]_vars

(* C36, amended: a refresh answer arriving while no account has the call's *)
(* email makes the call fail with Account not found, hand no token on and  *)
(* leave the table as it is (no row is created); an answer arriving while  *)
(* a row with the email exists, be it one registered after the deletion,   *)
(* is persisted into that row and the call delivers.                       *)
C36_FailsWhileNoRowHasTheEmail ==
    [][\A c \in CallIds :
          (calls[c].pc = "refreshing" /\ calls'[c].resp # NULL) =>
              IF accountExists(calls[c].email)
              THEN /\ calls'[c].pc = "sending"
                   /\ StoredPairIs(accounts', calls[c].email, calls'[c].resp[1])
                   /\ {r.id : r \in accounts'} = {r.id : r \in accounts}
              ELSE /\ calls'[c].pc = "failed"
                   /\ calls'[c].error = "Account not found: " \o calls[c].email
                   /\ calls'[c].token = NULL
                   /\ calls'[c].sentFrom = ""
                   /\ accounts' = accounts]_vars

(* one call failed at the persist step while its email had no account, and *)
(* another, whose account was deleted and registered again during its      *)
(* refresh, persisted into the new row                                     *)
C36_Witness ==
    \E c, d \in CallIds :
        /\ calls[c].pc = "failed" /\ calls[c].resp # NULL
        /\ calls[c].error = "Account not found: " \o calls[c].email
        /\ calls[d].pc = "sending" /\ calls[d].resp # NULL
        /\ \E r \in accounts : r.email = calls[d].email /\ r.id > 1


(* ---------------------------------------------------------------------- *)
(* Failures after the exchange                                             *)
(* ---------------------------------------------------------------------- *)

(* the errors getUserEmail throws for a response that is not OK *)
UserInfoErrors ==
    {"Failed to fetch user info: Unauthorized", "Failed to fetch user info: Bad Request"}

(* C37: a callback ends in the Page Expired page only in the step in which *)
(* its code exchange fails; a callback whose exchange returned tokens and  *)
(* whose user-email lookup then fails ends in the Registration Failed page *)
(* with status 500.                                                         *)
C37_PageExpiredOnlyForFailedExchange ==
    [][\A f \in FlowIds :
          /\ (flows[f].pc # "done" /\ flows'[f].pc = "done"
                /\ flows'[f].response[1].page = "Page Expired") =>
                    (flows[f].pc = "exchanging" /\ flows[f].tokens = NULL)
          /\ \A m \in UserInfoErrors :
                UserEmailFails(f, m) =>
                    /\ flows'[f].response[1].page = "Registration Failed"
                    /\ flows'[f].response[1].status = 500]_vars


(* ---------------------------------------------------------------------- *)
(* The state tag of the authorization URL                                  *)
(* ---------------------------------------------------------------------- *)

(* the page a callback with the echoed tag answers once the email is known, *)
(* from the tag, the email and the table alone                              *)
PageFor(tag, email) ==
    IF tag = "regenerate"
    THEN IF \E r \in accounts : r.email = email
         THEN "API Key Regenerated" ELSE "Account Not Found"
    ELSE IF \E r \in accounts : r.email = email
         THEN "Already Registered" ELSE "Registration Successful"

(* C38: /auth/register redirects to an authorization URL whose state is      *)
(* 'register', /auth/regenerate to one whose state is 'regenerate', and      *)
(* neither writes anything; a callback keeps the tag of its request, and     *)
(* once the email is known it answers with the page of the regenerate flow  *)
(* exactly when that tag is 'regenerate' and with the page of the register  *)
(* flow for every other tag or none: the page is given by the tag, the      *)
(* email and the accounts, whatever redirects were issued before.           *)
C38_TagSelectsTheFlow ==
    [][\A f \in FlowIds :
          /\ AuthRegister(f) =>
                /\ flows'[f].response[1].status = 302
                /\ flows'[f].response[1].detail = "register"
          /\ AuthRegenerate(f) =>
                /\ flows'[f].response[1].status = 302
                /\ flows'[f].response[1].detail = "regenerate"
          /\ (flows[f].pc = "idle" /\ flows'[f].pc = "done"
                /\ flows'[f].response[1].page = "Redirect") =>
                    /\ accounts' = accounts /\ nkeys' = nkeys /\ redeemed' = redeemed
                    /\ \A g \in FlowIds \ {f} : flows'[g] = flows[g]
          /\ (flows[f].pc \in {"exchanging", "resolving"}) =>
                flows'[f].state = flows[f].state
          /\ (flows[f].pc = "resolving" /\ flows'[f].pc = "done") =>
                \A e \in Emails :
                    UserEmailReturns(f, e, "s1", "n1") =>
                        /\ flows'[f].response[1].page = PageFor(flows[f].state, e)
                        /\ (flows[f].state # "regenerate") =>
                              flows'[f].response[1].page
                                  \in {"Already Registered", "Registration Successful"}]_vars

(* a callback echoing 'regenerate' regenerated a key although the only      *)
(* redirect ever issued was the one of /auth/register                       *)
C38_Witness ==
    \E f, g \in FlowIds :
        /\ flows[f].response # NULL
        /\ flows[f].response[1].page = "Redirect"
        /\ flows[f].response[1].detail = "register"
        /\ flows[g].state = "regenerate"
        /\ flows[g].response # NULL
        /\ flows[g].response[1].page = "API Key Regenerated"
        /\ \A h \in FlowIds : flows[h].response # NULL =>
              flows[h].response[1].detail # "regenerate"


(* ---------------------------------------------------------------------- *)
(* A send the mail API refuses                                             *)
(* ---------------------------------------------------------------------- *)

(* the error a refused send must end in, by status *)
RefusalFor(status) ==
    IF status = 401 THEN "Gmail API authentication failed. Token may be revoked."
    ELSE IF status = 403 THEN "Gmail API permission denied. Check OAuth scopes."
    ELSE IF status = 429 THEN "Gmail API rate limit exceeded. Try again later."
    ELSE "Gmail API error: " \o ToString(status)

(* C39: when the mail API answers a send with a status other than success, *)
(* the call fails in that step with the error of the status (401, 403, 429 *)
(* by name, any other with its code), no other call changes, no token is   *)
(* requested, and the accounts keep their stored token and expiry; a call  *)
(* that starts while the stored token has more than the buffer left, after *)
(* such a failure too, posts with the stored token and refreshes nothing.  *)
C39_RefusedSendKeepsToken ==
    [][/\ \A c \in CallIds : \A st \in Statuses \ {200} :
             GmailResponds(c, st) =>
                 /\ calls'[c].pc = "failed"
                 /\ calls'[c].error = RefusalFor(st)
                 /\ \A d \in CallIds \ {c} : calls'[d] = calls[d]
                 /\ minted' = minted
                 /\ accounts' = accounts
       /\ \A d \in CallIds :
             (calls[d].pc = "idle" /\ calls'[d].pc # "idle"
                /\ HasStoredToken(calls'[d].userEmail)
                /\ SecondsLeft(calls'[d].userEmail) > BufferSeconds) =>
                 /\ calls'[d].pc = "sending"
                 /\ calls'[d].cached
                 /\ calls'[d].token = decrypt(RowOf(calls'[d].userEmail).access_token)
                 /\ accounts' = accounts
                 /\ minted' = minted]_vars

(* a send was refused with status 429; the row still holds the token it *)
(* posted, the only one ever requested, and a call that took that token *)
(* from the cache is on its way to the API                              *)
C39_Witness ==
    /\ calls[2].pc = "failed" /\ calls[2].error = RefusalFor(429)
    /\ calls[1].pc = "sending" /\ calls[1].cached
    /\ calls[1].token = calls[2].token
    /\ HasStoredToken("a@x")
    /\ decrypt(RowOf("a@x").access_token) = calls[1].token
    /\ Len(minted) = 1
====
